---------------------------- MODULE Spec2Model ----------------------------
(***************************************************************************)
(* Persistent agent <-> relay connection of the corrosion crate:           *)
(* crates/corrosion/src/persistent.rs (framing, handshake),                *)
(* persistent/client.rs (Client: connect_insecure, driver task,            *)
(* transactions, shutdown), persistent/server.rs (per-connection task,     *)
(* complete_handshake, close) and persistent/error.rs (ErrorCode).         *)
(*                                                                         *)
(* One connection is modelled: one bidirectional stream, i.e. two          *)
(* unidirectional byte streams c2s (client -> server) and s2c.  The        *)
(* transport (quinn) is modelled by its documented contract:               *)
(*  - a stream delivers its bytes reliably and in order;                   *)
(*  - read_exact(n) yields exactly n bytes, FinishedEarly when the stream  *)
(*    is finished before n bytes, a ReadError on reset / connection loss;  *)
(*  - read_chunk(max, ordered) yields the next segment of at most max      *)
(*    bytes; segment boundaries do not correspond to the peer's writes;    *)
(*  - reset(code) abandons the undelivered bytes, the reader sees          *)
(*    ReadError::Reset(code);                                              *)
(*  - dropping a RecvStream that has not been read to its end stops the    *)
(*    stream: the peer's writes fail and the peer's stopped() completes;   *)
(*  - stopped() completes only then, or when the connection is closed;     *)
(*  - a connection is closed implicitly when one side has dropped all of   *)
(*    its handles (connection and streams).                                *)
(* The network itself never fails in this model.                           *)
(***************************************************************************)
EXTENDS Integers, Sequences, FiniteSets, TLC

(***************************************************************************)
(* Bounds of the model.                                                    *)
(***************************************************************************)
\* longest payload framed in the framing round trip
MaxPayload == 4

\* largest token set encoded in the token codec round trip
MaxTokens == 3

\* last reading of the database clock
MaxTime == 1

\* number of transactions() calls issued on the Client
MaxReq == 3
\* longest input given to the ICAO parsers, in bytes and in chars
MaxIcaoLen == 5

\* largest stream reset code given to the ErrorCode conversion
MaxVarInt == 520
\* largest length of a LengthMismatch given to the ErrorCode conversion
MaxChunk == 7

\* longest blob given to deserialize_token_set, in bytes
MaxBlob == 4

\* longest buffer given to ClientHandshake::read and ServerHandshake::read
MaxHandshakeLen == 13
\* number of read_chunk calls that the transport may answer with a segment
\* shorter than both the requested maximum and the bytes already received
MaxShortReads == 1

(***************************************************************************)
(* Bytes and small helpers.                                                *)
(***************************************************************************)
Min(a, b) == IF a < b THEN a ELSE b

Drop(s, n) == SubSeq(s, n + 1, Len(s))

Take(s, n) == SubSeq(s, 1, n)

\* u16::to_ne_bytes on a host that is big-endian or not
ToNeBytes(big, x) ==
    IF big THEN << (x \div 256) % 256, x % 256 >>
           ELSE << x % 256, (x \div 256) % 256 >>

\* u16 <-> two bytes.  The hosts of a connection are little-endian:
\* to_ne_bytes/from_ne_bytes are the little-endian conversions there.
U16Bytes(x) == ToNeBytes(FALSE, x)

U16Of(b0, b1) == b0 + 256 * b1

(***************************************************************************)
(* persistent.rs: handshake                                                *)
(***************************************************************************)
\* pub const MAGIC: [u8; 4] = 0xf0cacc1au32.to_ne_bytes();
MagicOn(big) ==
    IF big THEN << 240, 202, 204, 26 >> ELSE << 26, 204, 202, 240 >>

MAGIC == MagicOn(FALSE)

\* client.rs: pub const VERSION: u16 = 1
ClientVERSION == 1

\* server.rs: pub const VERSION: u16 = 1
ServerVERSION == 1

\* const VALID_RANGE: RangeInclusive<u8> = b'A'..=b'Z'
ValidIcaoByte(c) == c >= 65 /\ c <= 90

\* Result<IcaoCode, IcaoError>: Ok(IcaoCode(code)), Err(InvalidLength { len })
\* or Err(InvalidCharacter { character, index })
IcaoResult(tag, code, err, len, character, index) ==
    [tag |-> tag, code |-> code, err |-> err, len |-> len,
     character |-> character, index |-> index]

\* Variant of IcaoTryFrom: the last invalid byte is reported
IcaoTryFromLast(value) ==
    LET bad == { i \in 1..Len(value) : ~ValidIcaoByte(value[i]) }
        last_bad == CHOOSE i \in bad : \A j \in bad : j <= i
    IN  IF Len(value) # 4 THEN IcaoResult("Err", << >>, "InvalidLength", Len(value), 0, 0)
        ELSE IF bad # { }
          THEN IcaoResult("Err", << >>, "InvalidCharacter", 0, value[last_bad],
                          last_bad - 1)
        ELSE IcaoResult("Ok", value, "", 0, 0, 0)

\* impl TryFrom<&[u8]> for IcaoCode: the loop returns at the first byte
\* outside VALID_RANGE, with its index counted from 0
IcaoTryFrom(value) ==
    LET bad == { i \in 1..Len(value) : ~ValidIcaoByte(value[i]) }
        first == CHOOSE i \in bad : \A j \in bad : i <= j
    IN  IF Len(value) # 4 THEN IcaoResult("Err", << >>, "InvalidLength", Len(value), 0, 0)
        ELSE IF bad # { }
          THEN IcaoResult("Err", << >>, "InvalidCharacter", 0, value[first],
                          first - 1)
        ELSE IcaoResult("Ok", value, "", 0, 0, 0)

\* The number of bytes of a char in UTF-8
LenUtf8(c) == IF c < 128 THEN 1 ELSE IF c < 2048 THEN 2 ELSE IF c < 65536 THEN 3 ELSE 4

\* str::len(): the number of bytes of the text, a sequence of chars
RECURSIVE StrLen(_)
StrLen(input) == IF input = << >> THEN 0 ELSE LenUtf8(Head(input)) + StrLen(Tail(input))

\* impl FromStr for IcaoCode: the length tested is input.len(), the loop is
\* over input.chars().enumerate() and returns at the first char outside 'A'..='Z'
IcaoFromStr(input) ==
    LET bad == { i \in 1..Len(input) : ~(input[i] >= 65 /\ input[i] <= 90) }
        first == CHOOSE i \in bad : \A j \in bad : i <= j
    IN  IF StrLen(input) # 4
          THEN IcaoResult("Err", << >>, "InvalidLength", StrLen(input), 0, 0)
        ELSE IF bad # { }
          THEN IcaoResult("Err", << >>, "InvalidCharacter", 0, input[first],
                          first - 1)
        ELSE IcaoResult("Ok", input, "", 0, 0, 0)

\* fn write_magic_and_version(buf, version): the first six bytes of a handshake
WriteMagicAndVersionOn(big, version) == MagicOn(big) \o ToNeBytes(big, version)

WriteMagicAndVersion(version) == WriteMagicAndVersionOn(FALSE, version)

\* ClientHandshakeRequestV1::write: 12 bytes
ClientHandshakeRequestV1WriteOn(big, qcmp_port, icao) ==
    WriteMagicAndVersionOn(big, 1) \o ToNeBytes(big, qcmp_port) \o icao

ClientHandshakeRequestV1Write(qcmp_port, icao) ==
    ClientHandshakeRequestV1WriteOn(FALSE, qcmp_port, icao)

\* ServerHandshakeResponseV1::write: 7 bytes
ServerHandshakeResponseV1WriteOn(big, accept) ==
    WriteMagicAndVersionOn(big, 1) \o << IF accept THEN 1 ELSE 0 >>

ServerHandshakeResponseV1Write(accept) ==
    ServerHandshakeResponseV1WriteOn(FALSE, accept)

\* A HandshakeError (or, with tag "Panic", a panic of the parsing code) in the
\* shape of a parse result; ours/theirs are those of UnsupportedVersion,
\* length/expected those of InsufficientLength.
HsErr(err, ours, theirs) ==
    [tag |-> IF err = "Panic" THEN "Panic" ELSE "Err", err |-> err,
     version |-> 0, qcmp_port |-> 0, icao |-> << >>,
     ours |-> ours, theirs |-> theirs, length |-> 0, expected |-> 0]

\* fn explicit_size<N>(buf): Err(InsufficientLength { length: buf.len(),
\* expected: N }) when buf.len() < N, else the first N bytes
ExplicitSize(N, buf) ==
    IF Len(buf) < N
      THEN [tag |-> "Err", err |-> "InsufficientLength", length |-> Len(buf),
            expected |-> N, bytes |-> << >>]
      ELSE [tag |-> "Ok", err |-> "", length |-> 0, expected |-> 0,
            bytes |-> Take(buf, N)]

\* ClientHandshakeRequestV1::read(buf: [u8; 6])
ClientHandshakeRequestV1Read(buf) ==
    IF IcaoTryFrom(Drop(buf, 2)).tag = "Err"
      THEN HsErr("InvalidIcao", 0, 0)
      ELSE [tag |-> "Ok", err |-> "", version |-> 1,
            qcmp_port |-> U16Of(buf[1], buf[2]), icao |-> Drop(buf, 2),
            ours |-> 0, theirs |-> 0, length |-> 0, expected |-> 0]

\* ClientHandshake::read(server_version, buf).  Indexing buf[4], buf[5] and
\* slicing &buf[6..] panic when the buffer holds the magic but fewer than six
\* bytes.
ClientHandshakeReadOn(big, server_version, buf) ==
    IF Len(buf) < 4 \/ Take(buf, 4) # MagicOn(big)
      THEN HsErr("InvalidMagic", 0, 0)
    ELSE IF Len(buf) < 6
      THEN HsErr("Panic", 0, 0)
    ELSE IF U16Of(buf[5], buf[6]) # 1
      THEN HsErr("UnsupportedVersion", server_version, U16Of(buf[5], buf[6]))
    ELSE LET fixed == ExplicitSize(6, Drop(buf, 6)) IN
         IF fixed.tag = "Err"
           THEN [HsErr(fixed.err, 0, 0) EXCEPT !.length = fixed.length,
                                               !.expected = fixed.expected]
           ELSE ClientHandshakeRequestV1Read(fixed.bytes)

ClientHandshakeRead(server_version, buf) ==
    ClientHandshakeReadOn(FALSE, server_version, buf)

\* ServerHandshake::read(client_version, buf), then the accept test of
\* connect_insecure.
ServerHandshakeReadOn(big, client_version, buf) ==
    LET Res(tag, err, accept, ours, theirs) ==
            [tag |-> tag, err |-> err, accept |-> accept, ours |-> ours,
             theirs |-> theirs, length |-> 0, expected |-> 0]
        fixed == ExplicitSize(1, Drop(buf, 6))
    IN
    IF Len(buf) < 4 \/ Take(buf, 4) # MagicOn(big)
      THEN Res("Err", "InvalidMagic", FALSE, 0, 0)
    ELSE IF Len(buf) < 6
      THEN Res("Panic", "index out of bounds", FALSE, 0, 0)
    ELSE IF U16Of(buf[5], buf[6]) # 1
      THEN Res("Err", "UnsupportedVersion", FALSE, client_version,
               U16Of(buf[5], buf[6]))
    ELSE IF fixed.tag = "Err"
      THEN [Res("Err", fixed.err, FALSE, 0, 0) EXCEPT
               !.length = fixed.length, !.expected = fixed.expected]
    ELSE IF fixed.bytes[1] = 0 THEN Res("Ok", "", FALSE, 0, 0)
    ELSE IF fixed.bytes[1] = 1 THEN Res("Ok", "", TRUE, 0, 0)
    ELSE Res("Err", "InvalidResponse", FALSE, 0, 0)

ServerHandshakeRead(client_version, buf) ==
    ServerHandshakeReadOn(FALSE, client_version, buf)

(***************************************************************************)
(* persistent.rs: framing                                                  *)
(***************************************************************************)
\* write_length_prefixed / update_length_prefix: 2-byte prefix, low byte first
WriteLengthPrefixed(bytes) == << Len(bytes) % 256, (Len(bytes) \div 256) % 256 >> \o bytes

(***************************************************************************)
(* persistent/error.rs: ErrorCode as the stream reset code                 *)
(***************************************************************************)
EcUnknown == 0
EcOk == 200
EcBadRequest == 400
EcBadHandshake == 402
EcLengthRequired == 411
EcPayloadTooLarge == 413
EcPayloadInsufficient == 414
EcClientClosed == 499
EcInternalServerError == 500
EcVersionNotSupported == 505

\* A LengthReadError of the model: kind is one of "Read" (ReadError, also
\* inside ReadExact), "FinishedEarly", "StreamEnded", "LengthMismatch", "Json".
Lre(kind, expected, received) ==
    [kind |-> kind, expected |-> expected, received |-> received]

\* Variant of EcOfLre: a read that fails on the stream counts as a clean end
EcOfLreReadIsOk(e) ==
    CASE e.kind \in {"Read", "StreamEnded"} -> EcOk
      [] e.kind = "FinishedEarly" -> EcLengthRequired
      [] e.kind = "LengthMismatch" ->
            IF e.received > e.expected THEN EcPayloadTooLarge
                                       ELSE EcPayloadInsufficient
      [] e.kind = "Json" -> EcBadRequest

\* Variant of EcOfLre: the comparison of a length mismatch is the other way round
EcOfLreSwapped(e) ==
    CASE e.kind \in {"Read", "StreamEnded"} -> EcClientClosed
      [] e.kind = "FinishedEarly" -> EcLengthRequired
      [] e.kind = "LengthMismatch" ->
            IF e.received < e.expected THEN EcPayloadTooLarge
                                       ELSE EcPayloadInsufficient
      [] e.kind = "Json" -> EcBadRequest

\* impl From<&LengthReadError> for ErrorCode
EcOfLre(e) ==
    CASE e.kind \in {"Read", "StreamEnded"} -> EcClientClosed
      [] e.kind = "FinishedEarly" -> EcLengthRequired
      [] e.kind = "LengthMismatch" ->
            IF e.received > e.expected THEN EcPayloadTooLarge
                                       ELSE EcPayloadInsufficient
      [] e.kind = "Json" -> EcBadRequest

\* An IoLoopError of the model: kind "Read" carries a LengthReadError, "Jsonb"
\* is the serde_json::Error of write_length_prefixed_jsonb, "Write" the
\* quinn::WriteError of write_chunk.
IoLoopError(kind, read) == [kind |-> kind, read |-> read]

\* impl From<IoLoopError> for ErrorCode
EcOfIoLoopError(value) ==
    CASE value.kind = "Read" -> EcOfLre(value.read)
      [] value.kind = "Write" -> EcClientClosed
      [] value.kind = "Jsonb" -> EcInternalServerError


(***************************************************************************)
(* JSON payloads.  serde_json is not part of the repository; a document is *)
(* modelled by a short byte string that carries the identity of the batch. *)
(* A request (Vec<ServerChange>) of batch b is "[" b, an ExecResult for    *)
(* batch b is "{" "r" b "}".  Every byte of a result is non-zero.          *)
(***************************************************************************)
\* serde_json::to_writer of transactions(): the JSON of a batch
JsonRequest(b) == << 91, b >>

\* The batches whose execution fails: for them AgentExecutor::execute returns
\* ExecResult::Error { error }, for the others ExecResult::Execute { .. }
FailingBatches == {2}

\* serde_json::to_writer of the server loop: the JSON of the ExecResult, an
\* object with the members of Execute ("r") or of Error ("e")
JsonResult(b) ==
    << 123, IF b \in FailingBatches THEN 101 ELSE 114, b, 125 >>

\* serde_json::from_slice::<Vec<ServerChange>>: the batch, or 0 for a JSON error
ParseRequest(bytes) ==
    IF Len(bytes) = 2 /\ bytes[1] = 91 THEN bytes[2] ELSE 0

\* serde_json::from_slice::<ExecResult>: the batch, or 0 for a JSON error
ParseResult(bytes) ==
    IF Len(bytes) = 4 /\ bytes[1] = 123 /\ bytes[2] \in {114, 101}
                      /\ bytes[4] = 125
      THEN bytes[3] ELSE 0

\* The ExecResult decoded is ExecResult::Error
ParsedError(bytes) == ParseResult(bytes) # 0 /\ bytes[2] = 101

\* write_length_prefixed_jsonb of a request / of a result
RequestFrame(b) == WriteLengthPrefixed(JsonRequest(b))

ResultFrame(b) == WriteLengthPrefixed(JsonResult(b))

(***************************************************************************)
(* Inputs.                                                                 *)
(***************************************************************************)
\* tests/quic.rs: connect_insecure(server.local_addr(), 2001, icao)
QcmpPort == 2001

\* tests/quic.rs: IcaoCode::new_testing([b'Y'; 4])
Icao == << 89, 89, 89, 89 >>

\* The handshake frame that connect_insecure writes
ValidHandshake == ClientHandshakeRequestV1Write(QcmpPort, Icao)

\* Handshake frames a peer can send: the valid one, and malformed ones
HandshakeFrames ==
    { ValidHandshake,
      ValidHandshake \o << 0 >>,                        \* longer than needed
      << 27, 204, 202, 240 >> \o Drop(ValidHandshake, 4), \* bad magic
      Take(MAGIC, 3),                                   \* shorter than the magic
      MAGIC,                                            \* the magic alone
      MAGIC \o << 1 >>,                                 \* magic and half a version
      MAGIC \o U16Bytes(2) \o Drop(ValidHandshake, 6),  \* unknown version
      Take(ValidHandshake, 9),                          \* short V1 payload
      Take(ValidHandshake, 8) \o << 89, 121, 89, 89 >>  \* invalid ICAO
    }

\* What a peer can write on the stream as its handshake: a whole frame, or the
\* first bytes of one after which it finishes the stream (nothing, half a
\* length prefix, the length prefix alone, the prefix and a part of the payload)
PeerHandshakeWrites ==
    { [bytes |-> WriteLengthPrefixed(f), fin |-> FALSE] : f \in HandshakeFrames }
    \cup { [bytes |-> Take(WriteLengthPrefixed(ValidHandshake), n), fin |-> TRUE] :
             n \in {0, 1, 2, 7} }

Requests == 1..MaxReq

(***************************************************************************)
(* State.                                                                  *)
(***************************************************************************)
VARIABLES
    c2s,        \* stream client -> server: [data, fin, rst, stop]
    s2c,        \* stream server -> client
    connClosed, \* the connection is closed (one side dropped all its handles)
    shortReads, \* read_chunk calls answered short so far
    cPc,        \* position of connect_insecure / of the driver task
    cLen,       \* length prefix the client has read for the pending frame
    cur,        \* request whose reply sender (comp) the driver holds, or 0
    queue,      \* the unbounded mpsc queue: requests in enqueue order
    txAlive,    \* Client.tx exists (the only sender of the queue)
    taskResult, \* result of the driver task
    call,       \* per transactions() call: idle, waiting, dropped, returned
    chan,       \* per call: state of its oneshot channel
    res,        \* per call: what transactions() returned
    shPc,       \* position of shutdown()
    sPc,        \* position of the server's per-connection task
    sLen,       \* length prefix the server has read for the pending frame
    sBatch,     \* batch the server has decoded and is executing/answering
    sCode,      \* ErrorCode handed to close()
    hsReq,      \* handshake_request, kept when ClientHandshake::read refused it
    sErr,       \* error that ended the handshake or the I/O loop, "" if none
    sLog,       \* history: AgentExecutor calls, the requests read and the
                \* responses written by io_loop, and close() of the server task
    rdLog,      \* history: per response read of the driver, request and outcome
    wrLog,      \* history: per request the driver wrote, whether Client.tx was gone
    fPayload,   \* framing round trip: the payload given to write_length_prefixed
    fWire,      \* framing round trip: the receiving side of the stream
    fLen,       \* framing round trip: the length prefix read
    fOut,       \* framing round trip: what read_length_prefixed returned
    fPc,        \* framing round trip: position, "idle" when not exercised
    tSet,       \* token codec: the TokenSet given to to_sql
    tSql,       \* token codec: the SqliteParam to_sql returned
    tOut,       \* token codec: what deserialize_token_set returned
    tPc,        \* token codec: position, "idle" when not exercised
    hHost,      \* handshake round trip: TRUE when the host is big-endian
    hIn,        \* handshake round trip: the fields of the two V1 structs
    hWire,      \* handshake round trip: what the two write() calls returned
    hOut,       \* handshake round trip: what the two read() calls returned
    hPc,        \* handshake round trip: position, "idle" when not exercised
    servers,    \* database: the rows of table servers
    dc,         \* database: the rows of table dc
    now,        \* database: unixepoch('now')
    last,       \* database: the latest operation executed (history)
    mine,       \* database: the endpoints peer P upserted and has not
                \* removed since (history)
    sessions,   \* database: per session of the relay, whether its peer is
                \* connected and the endpoints it upserted (history)
    connectResult,  \* what Client::connect_insecure returned, tag "Pending"
                    \* until it returns
    hsRes,      \* the response payload connect_insecure read (history)
    eIn,        \* endpoint round trip: the Endpoint given to to_sql
    eText,      \* endpoint round trip: the text to_compact_str returned
    eOut,       \* endpoint round trip: what parse_endpoint returned
    ePc,        \* endpoint round trip: position, "idle" when not exercised
    iIn,        \* ICAO parsing: the input, bytes or the chars of a str
    iOut,       \* ICAO parsing: what try_from or from_str returned
    iPc,        \* ICAO parsing: position, "idle" when not exercised
    ioErr,      \* close code: the IoLoopError io_loop returned
    ioCode,     \* close code: the ErrorCode made of it, 0 until then
    ioPc,       \* close code: position, "idle" when not exercised
    fnIn,       \* a function called on its own: the arguments
    fnOut,      \* a function called on its own: what it returned
    fnPc        \* a function called on its own: position, "idle" when none is

streamVars == << c2s, s2c, connClosed, shortReads >>
clientVars == << cPc, cLen, cur, queue, taskResult >>
callerVars == << txAlive, call, chan, res, shPc >>
serverVars == << sPc, sLen, sBatch, sCode, hsReq, sErr >>
histVars == << sLog, rdLog, wrLog >>
connVars == << streamVars, clientVars, callerVars, serverVars, histVars >>
frameVars == << fPayload, fWire, fLen, fOut, fPc >>
tokenVars == << tSet, tSql, tOut, tPc >>
handVars == << hHost, hIn, hWire, hOut, hPc >>
dbVars == << servers, dc, now, last, mine, sessions >>
connectVars == << connectResult, hsRes >>
endVars == << eIn, eText, eOut, ePc >>
icaoVars == << iIn, iOut, iPc >>
codeVars == << ioErr, ioCode, ioPc >>
fnVars == << fnIn, fnOut, fnPc >>
auxVars == << connectVars, frameVars, tokenVars, handVars, dbVars, endVars,
             icaoVars, codeVars, fnVars >>
exceptFrame == << connVars, connectVars, tokenVars, handVars, dbVars, endVars,
                 icaoVars, codeVars, fnVars >>
exceptToken == << connVars, connectVars, frameVars, handVars, dbVars, endVars,
                 icaoVars, codeVars, fnVars >>
exceptHand == << connVars, connectVars, frameVars, tokenVars, dbVars, endVars,
                icaoVars, codeVars, fnVars >>
exceptDb == << connVars, connectVars, frameVars, tokenVars, handVars, endVars,
              icaoVars, codeVars, fnVars >>
exceptEnd == << connVars, connectVars, frameVars, tokenVars, handVars, dbVars,
               icaoVars, codeVars, fnVars >>
exceptIcao == << connVars, connectVars, frameVars, tokenVars, handVars, dbVars,
                endVars, codeVars, fnVars >>
exceptCode == << connVars, connectVars, frameVars, tokenVars, handVars, dbVars,
                endVars, icaoVars, fnVars >>
exceptFn == << connVars, connectVars, frameVars, tokenVars, handVars, dbVars,
              endVars, icaoVars, codeVars >>
vars == << connVars, auxVars >>

Value(kind, batch) == [kind |-> kind, batch |-> batch]

\* Result<Client, ConnectError> without the Client: tag "Ok", or "Err" with
\* the error and, of HandshakeError::UnsupportedVersion, its two fields
ConnectResult(tag, err, ours, theirs) ==
    [tag |-> tag, err |-> err, ours |-> ours, theirs |-> theirs]

NewStream == [data |-> << >>, fin |-> FALSE, rst |-> -1, stop |-> FALSE]

\* The connection right after open_bi()
ConnInit ==
    /\ c2s = NewStream
    /\ s2c = NewStream
    /\ connClosed = FALSE
    /\ shortReads = 0
    /\ cPc = "hsSend"
    /\ cLen = 0
    /\ cur = 0
    /\ queue = << >>
    /\ txAlive = FALSE
    /\ taskResult = "none"
    /\ call = [i \in Requests |-> "idle"]
    /\ chan = [i \in Requests |-> Value("None", 0)]
    /\ res = [i \in Requests |-> Value("None", 0)]
    /\ shPc = "none"
    /\ sPc = "hsHdr"
    /\ sLen = 0
    /\ sBatch = 0
    /\ sCode = 0
    /\ hsReq = << >>
    /\ sErr = ""
    /\ sLog = << >>
    /\ rdLog = << >>
    /\ wrLog = << >>
    /\ connectResult = ConnectResult("Pending", "", 0, 0)
    /\ hsRes = << >>

\* The framing round trip is not exercised
FrameIdle ==
    /\ fPayload = << >>
    /\ fWire = NewStream
    /\ fLen = 0
    /\ fOut = [tag |-> "None", bytes |-> << >>, received |-> 0]
    /\ fPc = "idle"

\* The token codec is not exercised
TokenIdle ==
    /\ tSet = { }
    /\ tSql = [tag |-> "None", text |-> << >>]
    /\ tOut = [tag |-> "None", set |-> { }]
    /\ tPc = "idle"

\* Nothing read or written in the handshake round trip
HandBlank ==
    /\ hWire = [req |-> << >>, res |-> << >>]
    /\ hOut = [client |-> [tag |-> "None"], server |-> [tag |-> "None"]]

\* The handshake round trip is not exercised
HandIdle ==
    /\ hHost = FALSE
    /\ hIn = [qcmp_port |-> 0, icao |-> << >>, accept |-> FALSE]
    /\ HandBlank
    /\ hPc = "idle"

\* The two peers (agents) writing to the database, by IP
Peers == {"P", "Q"}

\* Peer = SocketAddrV6: the address and the source port of a connection
SocketAddrV6(ip, port) == [ip |-> ip, port |-> port]

\* The sessions of the relay: two from one IP with different source ports,
\* one from another IP
Sessions == { SocketAddrV6("P", 1), SocketAddrV6("P", 2), SocketAddrV6("Q", 1) }

\* What is known of a session: state is "none" before connected, then
\* "connected", "gone" after disconnected, "failed" when connected ended in
\* an error
Session(state, eps) == [state |-> state, eps |-> eps]

\* The latest operation as the history records it: an upsert of peer P with its
\* endpoint, n being 1 when it repeats the operation before it; a reap_old with
\* the age given to it, n being the number of rows it deleted; any other
\* operation as "other"
Op(op, peer, ep, t, n) == [op |-> op, peer |-> peer, ep |-> ep, t |-> t, n |-> n]

\* The database after the schema was created: no statement executed
DbIdle ==
    /\ servers = { }
    /\ dc = { }
    /\ now = 0
    /\ last = Op("other", "", "", 0, 0)
    /\ mine = { }
    /\ sessions = [s \in Sessions |-> Session("none", { })]

\* The conversion of an IoLoopError is not exercised
CodeIdle ==
    /\ ioErr = IoLoopError("None", Lre("None", 0, 0))
    /\ ioCode = 0
    /\ ioPc = "idle"

\* No function is called on its own
FnIdle ==
    /\ fnIn = [fn |-> "none"]
    /\ fnOut = [tag |-> "None"]
    /\ fnPc = "idle"

\* The endpoint round trip, the ICAO parsing, the conversion of an
\* IoLoopError and the functions called on their own are not exercised
EndIdle ==
    /\ CodeIdle
    /\ FnIdle
    /\ eIn = << >>
    /\ eText = << >>
    /\ eOut = [tag |-> "None"]
    /\ ePc = "idle"
    /\ iIn = [kind |-> "none", value |-> << >>]
    /\ iOut = IcaoResult("None", << >>, "", 0, 0, 0)
    /\ iPc = "idle"

Init == ConnInit /\ FrameIdle /\ TokenIdle /\ HandIdle /\ DbIdle /\ EndIdle

(***************************************************************************)
(* Transport operations (quinn SendStream / RecvStream).                   *)
(***************************************************************************)
\* SendStream::write_chunk fails on a stopped stream and on a closed connection
CanWrite(s) == ~s.stop /\ s.rst < 0 /\ ~s.fin /\ ~connClosed

Written(s, bytes) == [s EXCEPT !.data = s.data \o bytes]

\* SendStream::reset(code): the undelivered bytes are abandoned.  A finish()
\* right before or after it has no effect of its own.
Reset(s, code) == IF s.rst >= 0 THEN s ELSE [s EXCEPT !.rst = code, !.data = << >>]

\* Dropping a SendStream finishes it implicitly.
DropSend(s) == IF s.rst >= 0 \/ s.stop THEN s ELSE [s EXCEPT !.fin = TRUE]

\* Dropping a RecvStream: STOP_SENDING unless the peer has reset or finished.
DropRecv(s) ==
    IF s.rst >= 0 \/ s.fin THEN [s EXCEPT !.data = << >>]
                           ELSE [s EXCEPT !.stop = TRUE, !.data = << >>]

\* SendStream::stopped() completes
Stopped(s) == s.stop \/ connClosed

\* RecvStream::read_exact(2 bytes)
ReadExact2(s) ==
    IF s.rst >= 0
      THEN [tag |-> "Err", len |-> 0, rest |-> << >>, err |-> Lre("Read", 0, 0)]
    ELSE IF Len(s.data) >= 2
      THEN [tag |-> "Ok", len |-> U16Of(s.data[1], s.data[2]),
            rest |-> Drop(s.data, 2), err |-> Lre("None", 0, 0)]
    ELSE IF s.fin
      THEN [tag |-> "Err", len |-> 0, rest |-> << >>,
            err |-> Lre("FinishedEarly", 0, 0)]
    ELSE IF connClosed
      THEN [tag |-> "Err", len |-> 0, rest |-> << >>, err |-> Lre("Read", 0, 0)]
    ELSE [tag |-> "Block", len |-> 0, rest |-> s.data, err |-> Lre("None", 0, 0)]

\* RecvStream::read_chunk(len, true): the possible outcomes.  A segment holds
\* between one and len bytes; one shorter than it could be counts against
\* MaxShortReads.
ReadChunk(s, len) ==
    IF s.rst >= 0
      THEN { [tag |-> "Err", bytes |-> << >>, rest |-> << >>, short |-> FALSE,
              err |-> Lre("Read", 0, 0)] }
    ELSE IF Len(s.data) >= 1
      THEN { [tag |-> "Ok", bytes |-> Take(s.data, k), rest |-> Drop(s.data, k),
              short |-> k < Min(len, Len(s.data)), err |-> Lre("None", 0, 0)] :
             k \in { j \in 1..Min(len, Len(s.data)) :
                       j = Min(len, Len(s.data)) \/ shortReads < MaxShortReads } }
    ELSE IF s.fin
      THEN { [tag |-> "Err", bytes |-> << >>, rest |-> << >>, short |-> FALSE,
              err |-> Lre("StreamEnded", 0, 0)] }
    ELSE IF connClosed
      THEN { [tag |-> "Err", bytes |-> << >>, rest |-> << >>, short |-> FALSE,
              err |-> Lre("Read", 0, 0)] }
    ELSE { }

\* read_length_prefixed, after read_chunk answered o: the error, or kind "None"
LengthPrefixedError(o, len) ==
    IF o.tag = "Err" THEN o.err
    ELSE IF Len(o.bytes) # len THEN Lre("LengthMismatch", len, Len(o.bytes))
    ELSE Lre("None", 0, 0)


(***************************************************************************)
(* client.rs: Client::connect_insecure, the handshake                      *)
(***************************************************************************)
\* connect_insecure returns Err: send, recv and the connection are dropped
ConnectFail(c2sNow, s2cNow, err, ours, theirs) ==
    /\ cPc' = "connectFailed"
    /\ connectResult' = ConnectResult("Err", err, ours, theirs)
    /\ c2s' = DropSend(c2sNow)
    /\ s2c' = DropRecv(s2cNow)
    /\ connClosed' = TRUE
    /\ UNCHANGED << cLen, cur, queue, taskResult, txAlive >>

\* send.write_chunk(write_length_prefixed(&req))
ClientSendHandshake ==
    /\ cPc = "hsSend"
    /\ \E w \in PeerHandshakeWrites :
         IF CanWrite(c2s)
           THEN /\ c2s' = [Written(c2s, w.bytes) EXCEPT !.fin = w.fin]
                /\ cPc' = "hsHdr"
                /\ UNCHANGED << s2c, connClosed, cLen, cur, queue, taskResult,
                                txAlive, connectResult, hsRes >>
           ELSE ConnectFail(c2s, s2c, "Write", 0, 0) /\ UNCHANGED hsRes
    /\ UNCHANGED << shortReads, call, chan, res, shPc, serverVars, frameVars,
                    tokenVars, handVars, dbVars, endVars, icaoVars, codeVars,
                    fnVars, histVars >>

\* read_length_prefixed(&mut recv): recv.read_exact(&mut len)
ClientReadHandshakeLen ==
    /\ cPc = "hsHdr"
    /\ LET o == ReadExact2(s2c) IN
         /\ o.tag # "Block"
         /\ IF o.tag = "Ok"
              THEN /\ s2c' = [s2c EXCEPT !.data = o.rest]
                   /\ cLen' = o.len
                   /\ cPc' = "hsBody"
                   /\ UNCHANGED << c2s, connClosed, cur, queue, taskResult,
                                   txAlive, connectResult, hsRes >>
              ELSE /\ ConnectFail(c2s, [s2c EXCEPT !.data = o.rest],
                                  o.err.kind, 0, 0)
                   /\ UNCHANGED hsRes
    /\ UNCHANGED << shortReads, call, chan, res, shPc, serverVars, frameVars,
                    tokenVars, handVars, dbVars, endVars, icaoVars, codeVars,
                    fnVars, histVars >>

\* Variant of ClientReadHandshake: no test of accept
ClientReadHandshakeAnyAccept ==
    /\ cPc = "hsBody"
    /\ \E o \in ReadChunk(s2c, cLen) :
         LET e == LengthPrefixedError(o, cLen)
             s2cNow == [s2c EXCEPT !.data = o.rest]
             h == ServerHandshakeRead(ClientVERSION, o.bytes)
         IN  /\ shortReads' = IF o.short THEN shortReads + 1 ELSE shortReads
             /\ hsRes' = IF e.kind = "None" THEN o.bytes ELSE hsRes
             /\ IF e.kind # "None"
                  THEN ConnectFail(c2s, s2cNow, e.kind, 0, 0)
                ELSE IF h.tag # "Ok"
                  THEN ConnectFail(c2s, s2cNow, h.err, h.ours, h.theirs)
                ELSE /\ s2c' = s2cNow
                     /\ cPc' = "select"
                     /\ txAlive' = TRUE
                     /\ connectResult' = ConnectResult("Ok", "", 0, 0)
                     /\ UNCHANGED << c2s, connClosed, cLen, cur, queue,
                                     taskResult >>
    /\ UNCHANGED << call, chan, res, shPc, serverVars, frameVars, tokenVars,
                    handVars, dbVars, endVars, icaoVars, codeVars,
                    fnVars, histVars >>

\* read_length_prefixed: recv.read_chunk(len, true); ServerHandshake::read;
\* the accept test; the driver task is spawned and Ok(Client) returned
ClientReadHandshake ==
    /\ cPc = "hsBody"
    /\ \E o \in ReadChunk(s2c, cLen) :
         LET e == LengthPrefixedError(o, cLen)
             s2cNow == [s2c EXCEPT !.data = o.rest]
             h == ServerHandshakeRead(ClientVERSION, o.bytes)
         IN  /\ shortReads' = IF o.short THEN shortReads + 1 ELSE shortReads
             /\ hsRes' = IF e.kind = "None" THEN o.bytes ELSE hsRes
             /\ IF e.kind # "None"
                  THEN ConnectFail(c2s, s2cNow, e.kind, 0, 0)
                ELSE IF h.tag # "Ok"
                  THEN ConnectFail(c2s, s2cNow, h.err, h.ours, h.theirs)
                ELSE IF ~h.accept
                  THEN ConnectFail(c2s, s2cNow, "UnsupportedVersion",
                                   ClientVERSION, 1)
                ELSE /\ s2c' = s2cNow
                     /\ cPc' = "select"
                     /\ txAlive' = TRUE
                     /\ connectResult' = ConnectResult("Ok", "", 0, 0)
                     /\ UNCHANGED << c2s, connClosed, cLen, cur, queue,
                                     taskResult >>
    /\ UNCHANGED << call, chan, res, shPc, serverVars, frameVars, tokenVars,
                    handVars, dbVars, endVars, icaoVars, codeVars,
                    fnVars, histVars >>

(***************************************************************************)
(* client.rs: the driver task                                              *)
(***************************************************************************)
\* Variant of Dropped: the reply senders are leaked instead of dropped
DroppedNothing(ch, ids) == ch

\* The reply senders of the requests in ids are dropped
Dropped(ch, ids) ==
    [i \in Requests |-> IF i \in ids /\ ch[i].kind = "Open"
                          THEN Value("Closed", 0) ELSE ch[i]]

Range(q) == { q[i] : i \in 1..Len(q) }

\* The task's future completes with result: the queue receiver, the queued
\* requests, the held reply sender, send and recv are dropped
DriverEnd(result, ids, c2sNow, s2cNow) ==
    /\ cPc' = "done"
    /\ taskResult' = result
    /\ chan' = Dropped(chan, ids)
    /\ queue' = << >>
    /\ cur' = 0
    /\ c2s' = DropSend(c2sNow)
    /\ s2c' = DropRecv(s2cNow)

\* select!: res = recv.received_reset() => return res.map_err(Reset)
DriverReset ==
    /\ cPc = "select"
    /\ \/ s2c.rst >= 0 /\ DriverEnd("OkSome", Range(queue), c2s, s2c)
       \/ s2c.rst < 0 /\ s2c.fin /\ s2c.data = << >>
            /\ DriverEnd("OkNone", Range(queue), c2s, s2c)
       \/ s2c.rst < 0 /\ ~s2c.fin /\ connClosed
            /\ DriverEnd("Err", Range(queue), c2s, s2c)
    /\ UNCHANGED << connClosed, shortReads, cLen, txAlive, call, res, shPc,
                    serverVars, auxVars, histVars >>

\* Variant of DriverRequest: the request is written and the loop goes back to
\* the select without reading the response
DriverRequestNoRead ==
    /\ cPc = "select"
    /\ queue # << >>
    /\ IF CanWrite(c2s)
         THEN /\ c2s' = Written(c2s, RequestFrame(Head(queue)))
              /\ queue' = Tail(queue)
              /\ wrLog' = Append(wrLog, [req |-> Head(queue), closed |-> ~txAlive])
              /\ UNCHANGED << s2c, taskResult, chan, cur, cPc >>
         ELSE /\ DriverEnd("Err", Range(queue), c2s, s2c)
              /\ UNCHANGED wrLog
    /\ UNCHANGED << connClosed, shortReads, cLen, txAlive, call, res, shPc,
                    serverVars, auxVars, sLog, rdLog >>

\* select!: req = reqrx.recv() => Some(req); send.write_chunk(msg).await?
DriverRequest ==
    /\ cPc = "select"
    /\ queue # << >>
    /\ IF CanWrite(c2s)
         THEN /\ c2s' = Written(c2s, RequestFrame(Head(queue)))
              /\ cur' = Head(queue)
              /\ queue' = Tail(queue)
              /\ cPc' = "rdHdr"
              /\ wrLog' = Append(wrLog, [req |-> Head(queue), closed |-> ~txAlive])
              /\ UNCHANGED << s2c, taskResult, chan >>
         ELSE /\ DriverEnd("Err", Range(queue), c2s, s2c)
              /\ UNCHANGED wrLog
    /\ UNCHANGED << connClosed, shortReads, cLen, txAlive, call, res, shPc,
                    serverVars, auxVars, sLog, rdLog >>

\* Variant of DriverDrain: the stream is finished but not reset
DriverDrainFinishOnly ==
    /\ cPc = "select"
    /\ queue = << >>
    /\ ~txAlive
    /\ c2s' = [c2s EXCEPT !.fin = TRUE]
    /\ s2c' = DropRecv(s2c)
    /\ cPc' = "drainWait"
    /\ UNCHANGED << connClosed, shortReads, cLen, cur, queue, taskResult,
                    callerVars, serverVars, auxVars, histVars >>

\* Variant of DriverDrain: draining starts as soon as Client.tx is dropped,
\* whatever is still queued
DriverDrainEarly ==
    /\ cPc = "select"
    /\ ~txAlive
    /\ c2s' = Reset(c2s, 1)
    /\ s2c' = DropRecv(s2c)
    /\ cPc' = "drainWait"
    /\ UNCHANGED << connClosed, shortReads, cLen, cur, queue, taskResult,
                    callerVars, serverVars, auxVars, histVars >>

\* select!: req = reqrx.recv() => None: send.reset(1); send.finish(); drop(recv)
DriverDrain ==
    /\ cPc = "select"
    /\ queue = << >>
    /\ ~txAlive
    /\ c2s' = Reset(c2s, 1)
    /\ s2c' = DropRecv(s2c)
    /\ cPc' = "drainWait"
    /\ UNCHANGED << connClosed, shortReads, cLen, cur, queue, taskResult,
                    callerVars, serverVars, auxVars, histVars >>

\* Variant of DriverDrained: the task ends without awaiting send.stopped()
DriverDrainedNoWait ==
    /\ cPc = "drainWait"
    /\ DriverEnd("OkNone", { }, c2s, s2c)
    /\ UNCHANGED << connClosed, shortReads, cLen, txAlive, call, res, shPc,
                    serverVars, auxVars, histVars >>

\* drop(send.stopped().await); break; Ok(None)
DriverDrained ==
    /\ cPc = "drainWait"
    /\ Stopped(c2s)
    /\ DriverEnd("OkNone", { }, c2s, s2c)
    /\ UNCHANGED << connClosed, shortReads, cLen, txAlive, call, res, shPc,
                    serverVars, auxVars, histVars >>

\* comp.send(res): delivered when the caller still awaits, else only a warning;
\* the loop goes on either way
Deliver(value, error) ==
    /\ chan' = IF call[cur] = "waiting" THEN [chan EXCEPT ![cur] = value]
                                         ELSE chan
    /\ rdLog' = Append(rdLog, [req |-> cur, got |-> value.batch,
                               error |-> error])
    /\ cur' = 0
    /\ cPc' = "select"

\* read_length_prefixed_jsonb::<ExecResult>: recv.read_exact(&mut len)
DriverReadLen ==
    /\ cPc = "rdHdr"
    /\ LET o == ReadExact2(s2c) IN
         /\ o.tag # "Block"
         /\ s2c' = [s2c EXCEPT !.data = o.rest]
         /\ IF o.tag = "Ok"
              THEN /\ cLen' = o.len
                   /\ cPc' = "rdBody"
                   /\ UNCHANGED << cur, chan, rdLog >>
              ELSE /\ Deliver(Value("Err", 0), FALSE)
                   /\ UNCHANGED cLen
    /\ UNCHANGED << c2s, connClosed, shortReads, queue, taskResult, txAlive,
                    call, res, shPc, serverVars, auxVars, sLog, wrLog >>

\* read_length_prefixed_jsonb::<ExecResult>: recv.read_chunk(len, true), the
\* length test, serde_json::from_slice; then comp.send(res)
DriverRead ==
    /\ cPc = "rdBody"
    /\ \E o \in ReadChunk(s2c, cLen) :
         LET e == LengthPrefixedError(o, cLen)
             b == ParseResult(o.bytes)
         IN  /\ s2c' = [s2c EXCEPT !.data = o.rest]
             /\ shortReads' = IF o.short THEN shortReads + 1 ELSE shortReads
             /\ IF e.kind = "None" /\ b # 0
                  THEN Deliver(Value("Ok", b), ParsedError(o.bytes))
                  ELSE Deliver(Value("Err", 0), FALSE)
    /\ UNCHANGED << c2s, connClosed, cLen, queue, taskResult, txAlive, call,
                    res, shPc, serverVars, auxVars, sLog, wrLog >>

(***************************************************************************)
(* client.rs: Client::transactions and Client::shutdown                    *)
(***************************************************************************)
\* write_length_prefixed_jsonb(&change); self.tx.send((buf, tx)): the send
\* fails when the queue receiver is gone, i.e. the driver task has ended.
\* Batches are numbered in the order of their calls' tx.send, which is atomic.
Transactions(i) ==
    /\ call[i] = "idle"
    /\ \A j \in 1..(i - 1) : call[j] # "idle"
    /\ txAlive
    /\ IF cPc # "done"
         THEN /\ queue' = Append(queue, i)
              /\ chan' = [chan EXCEPT ![i] = Value("Open", 0)]
              /\ call' = [call EXCEPT ![i] = "waiting"]
              /\ UNCHANGED res
         ELSE /\ res' = [res EXCEPT ![i] = Value("TaskShutdown", 0)]
              /\ call' = [call EXCEPT ![i] = "returned"]
              /\ UNCHANGED << queue, chan >>
    /\ UNCHANGED << streamVars, cPc, cLen, cur, taskResult, txAlive, shPc,
                    serverVars, auxVars, histVars >>

\* rx.await.map_err(|_| TransactionError::TaskShutdown)
Await(i) ==
    /\ call[i] = "waiting"
    /\ chan[i].kind \in {"Ok", "Err", "Closed"}
    /\ res' = [res EXCEPT ![i] =
                 IF chan[i].kind = "Closed" THEN Value("TaskShutdown", 0)
                                            ELSE chan[i]]
    /\ call' = [call EXCEPT ![i] = "returned"]
    /\ UNCHANGED << streamVars, clientVars, txAlive, chan, shPc, serverVars,
                    auxVars, histVars >>

\* The caller drops the future of transactions() while it awaits the reply
Cancel(i) ==
    /\ call[i] = "waiting"
    /\ call' = [call EXCEPT ![i] = "dropped"]
    /\ UNCHANGED << streamVars, clientVars, txAlive, chan, res, shPc,
                    serverVars, auxVars, histVars >>

\* shutdown(self): drop(self.tx).  It takes the Client by value, so no
\* transactions() future borrows it any more.
Shutdown ==
    /\ txAlive
    /\ \A i \in Requests : call[i] # "waiting"
    /\ txAlive' = FALSE
    /\ shPc' = "awaitTask"
    /\ UNCHANGED << streamVars, clientVars, call, chan, res, serverVars,
                    auxVars, histVars >>

\* self.task.await; drop(self.inner): the client's last handle is gone
ShutdownReturn ==
    /\ shPc = "awaitTask"
    /\ cPc = "done"
    /\ shPc' = "returned"
    /\ connClosed' = TRUE
    /\ UNCHANGED << c2s, s2c, shortReads, clientVars, txAlive, call, chan,
                    res, serverVars, auxVars, histVars >>


(***************************************************************************)
(* server.rs: the per-connection task of Server::new_unencrypted           *)
(***************************************************************************)
Event(ev, arg) == [ev |-> ev, arg |-> arg]

\* An error return of the task without close(), or its panic: the task's
\* send, recv and connection are dropped
TaskAborts(pc) ==
    /\ sPc' = pc
    /\ c2s' = DropRecv(c2s)
    /\ s2c' = DropSend(s2c)
    /\ connClosed' = TRUE

\* complete_handshake: read_length_prefixed(&mut recv): recv.read_exact
ServerReadHandshakeLen ==
    /\ sPc = "hsHdr"
    /\ LET o == ReadExact2(c2s) IN
         /\ o.tag # "Block"
         /\ c2s' = [c2s EXCEPT !.data = o.rest]
         /\ IF o.tag = "Ok"
              THEN /\ sLen' = o.len
                   /\ sPc' = "hsBody"
                   /\ UNCHANGED << sCode, sErr >>
              ELSE /\ sCode' = EcOfLre(o.err)
                   /\ sErr' = o.err.kind
                   /\ sPc' = "close"
                   /\ UNCHANGED sLen
    /\ UNCHANGED << s2c, connClosed, shortReads, clientVars, callerVars,
                    auxVars, sBatch, hsReq, histVars >>

\* Variant of ServerReadHandshake: a HandshakeError is logged but the
\* handshake goes on
ServerReadHandshakeLenient ==
    /\ sPc = "hsBody"
    /\ \E o \in ReadChunk(c2s, sLen) :
         LET e == LengthPrefixedError(o, sLen)
             h == ClientHandshakeRead(ServerVERSION, o.bytes)
         IN  /\ shortReads' = IF o.short THEN shortReads + 1 ELSE shortReads
             /\ c2s' = [c2s EXCEPT !.data = o.rest]
             /\ IF e.kind # "None"
                  THEN /\ sCode' = EcOfLre(e)
                       /\ sErr' = e.kind
                       /\ sPc' = "close"
                       /\ UNCHANGED hsReq
                  ELSE /\ sErr' = h.err
                       /\ hsReq' = IF h.tag = "Ok" THEN hsReq ELSE o.bytes
                       /\ sPc' = "connected"
                       /\ UNCHANGED sCode
    /\ UNCHANGED << s2c, connClosed, clientVars, callerVars, auxVars, sLen,
                    sBatch, histVars >>

\* complete_handshake: recv.read_chunk, the length test, ClientHandshake::read;
\* every HandshakeError is closed with BadHandshake
ServerReadHandshake ==
    /\ sPc = "hsBody"
    /\ \E o \in ReadChunk(c2s, sLen) :
         LET e == LengthPrefixedError(o, sLen)
             h == ClientHandshakeRead(ServerVERSION, o.bytes)
         IN  /\ shortReads' = IF o.short THEN shortReads + 1 ELSE shortReads
             /\ IF e.kind # "None"
                  THEN /\ c2s' = [c2s EXCEPT !.data = o.rest]
                       /\ sCode' = EcOfLre(e)
                       /\ sErr' = e.kind
                       /\ sPc' = "close"
                       /\ UNCHANGED << s2c, connClosed, hsReq >>
                ELSE IF h.tag = "Panic"
                  THEN /\ TaskAborts("panicked")
                       /\ hsReq' = o.bytes
                       /\ UNCHANGED << sCode, sErr >>
                ELSE IF h.tag = "Err"
                  THEN /\ c2s' = [c2s EXCEPT !.data = o.rest]
                       /\ sCode' = EcBadHandshake
                       /\ sErr' = h.err
                       /\ hsReq' = o.bytes
                       /\ sPc' = "close"
                       /\ UNCHANGED << s2c, connClosed >>
                  ELSE /\ c2s' = [c2s EXCEPT !.data = o.rest]
                       /\ sPc' = "connected"
                       /\ UNCHANGED << s2c, connClosed, sCode, sErr, hsReq >>
    /\ UNCHANGED << clientVars, callerVars, auxVars, sLen, sBatch, histVars >>

\* Variant of ServerConnected: the response is written first and connected is
\* invoked afterwards
ServerConnectedAfterWrite ==
    /\ \/ /\ sPc = "connected"
          /\ CanWrite(s2c)
          /\ s2c' = Written(s2c, WriteLengthPrefixed(
                                    ServerHandshakeResponseV1Write(TRUE)))
          /\ sPc' = "connectedLate"
          /\ UNCHANGED sLog
       \/ /\ sPc = "connectedLate"
          /\ sLog' = Append(sLog, Event("connected", 0))
          /\ sPc' = "rdHdr"
          /\ UNCHANGED s2c
    /\ UNCHANGED << c2s, connClosed, shortReads, clientVars, callerVars,
                    auxVars, hsReq, sErr, sLen, sBatch, sCode, rdLog, wrLog >>

\* complete_handshake: exec.connected(peer, icao, qcmp_port).await
ServerConnected ==
    /\ sPc = "connected"
    /\ sLog' = Append(sLog, Event("connected", 0))
    /\ sPc' = "hsWrite"
    /\ UNCHANGED << streamVars, clientVars, callerVars, auxVars, hsReq, sErr,
                    sLen, sBatch, sCode, rdLog, wrLog >>

\* complete_handshake: send.write_chunk(chunk.freeze()).await?
ServerSendHandshake ==
    /\ sPc = "hsWrite"
    /\ IF CanWrite(s2c)
         THEN /\ s2c' = Written(s2c, WriteLengthPrefixed(
                                        ServerHandshakeResponseV1Write(TRUE)))
              /\ sPc' = "rdHdr"
              /\ UNCHANGED << c2s, connClosed >>
         ELSE TaskAborts("done")
    /\ UNCHANGED << shortReads, clientVars, callerVars, auxVars, hsReq, sErr,
                    sLen, sBatch, sCode, histVars >>

\* io_loop: read_length_prefixed_jsonb(&mut recv): recv.read_exact
ServerReadLen ==
    /\ sPc = "rdHdr"
    /\ LET o == ReadExact2(c2s) IN
         /\ o.tag # "Block"
         /\ c2s' = [c2s EXCEPT !.data = o.rest]
         /\ IF o.tag = "Ok"
              THEN /\ sLen' = o.len
                   /\ sPc' = "rdBody"
                   /\ UNCHANGED << sCode, sErr >>
              ELSE /\ sCode' = EcOfLre(o.err)
                   /\ sErr' = o.err.kind
                   /\ sPc' = "disc"
                   /\ UNCHANGED sLen
    /\ UNCHANGED << s2c, connClosed, shortReads, clientVars, callerVars,
                    auxVars, sBatch, hsReq, histVars >>

\* io_loop: recv.read_chunk, the length test, serde_json::from_slice
ServerRead ==
    /\ sPc = "rdBody"
    /\ \E o \in ReadChunk(c2s, sLen) :
         LET e == LengthPrefixedError(o, sLen)
             b == ParseRequest(o.bytes)
         IN  /\ c2s' = [c2s EXCEPT !.data = o.rest]
             /\ shortReads' = IF o.short THEN shortReads + 1 ELSE shortReads
             /\ IF e.kind # "None"
                  THEN /\ sCode' = EcOfLre(e)
                       /\ sErr' = e.kind
                       /\ sPc' = "disc"
                       /\ UNCHANGED << sBatch, sLog >>
                ELSE IF b = 0
                  THEN /\ sCode' = EcOfLre(Lre("Json", 0, 0))
                       /\ sErr' = "Json"
                       /\ sPc' = "disc"
                       /\ UNCHANGED << sBatch, sLog >>
                  ELSE /\ sBatch' = b
                       /\ sLog' = Append(sLog, Event("read", b))
                       /\ sPc' = "exec"
                       /\ UNCHANGED << sCode, sErr >>
    /\ UNCHANGED << s2c, connClosed, clientVars, callerVars, auxVars, hsReq,
                    sLen, rdLog, wrLog >>

\* Variant of ServerExecute: the batch is executed a second time
ServerExecuteTwice ==
    /\ sPc = "exec"
    /\ sLog' = Append(Append(sLog, Event("execute", sBatch)),
                      Event("execute", sBatch))
    /\ sPc' = "write"
    /\ UNCHANGED << streamVars, clientVars, callerVars, auxVars, hsReq, sErr,
                    sLen, sBatch, sCode, rdLog, wrLog >>

\* io_loop: exec.execute(peer, &to_exec).await
ServerExecute ==
    /\ sPc = "exec"
    /\ sLog' = Append(sLog, Event("execute", sBatch))
    /\ sPc' = "write"
    /\ UNCHANGED << streamVars, clientVars, callerVars, auxVars, hsReq, sErr,
                    sLen, sBatch, sCode, rdLog, wrLog >>

\* Variant of ServerWrite: after sending an ExecResult::Error the loop ends
ServerWriteEndsOnError ==
    /\ sPc = "write"
    /\ IF CanWrite(s2c)
         THEN /\ s2c' = Written(s2c, ResultFrame(sBatch))
              /\ sLog' = Append(sLog, Event("write", sBatch))
              /\ sPc' = IF sBatch \in FailingBatches THEN "disc" ELSE "rdHdr"
              /\ UNCHANGED << sCode, sErr >>
         ELSE /\ sCode' = EcOfIoLoopError(
                                IoLoopError("Write", Lre("None", 0, 0)))
              /\ sErr' = "Write"
              /\ sPc' = "disc"
              /\ UNCHANGED << s2c, sLog >>
    /\ UNCHANGED << c2s, connClosed, shortReads, clientVars, callerVars,
                    auxVars, hsReq, sLen, sBatch, rdLog, wrLog >>

\* io_loop: write_length_prefixed_jsonb(&response);
\* send.write_chunk(response.freeze()).await?  (IoLoopError::Write => ClientClosed)
ServerWrite ==
    /\ sPc = "write"
    /\ IF CanWrite(s2c)
         THEN /\ s2c' = Written(s2c, ResultFrame(sBatch))
              /\ sLog' = Append(sLog, Event("write", sBatch))
              /\ sPc' = "rdHdr"
              /\ UNCHANGED << sCode, sErr >>
         ELSE /\ sCode' = EcOfIoLoopError(
                                IoLoopError("Write", Lre("None", 0, 0)))
              /\ sErr' = "Write"
              /\ sPc' = "disc"
              /\ UNCHANGED << s2c, sLog >>
    /\ UNCHANGED << c2s, connClosed, shortReads, clientVars, callerVars,
                    auxVars, hsReq, sLen, sBatch, rdLog, wrLog >>

\* Variant of ServerDisconnected: disconnected is invoked only when the loop
\* ended without an error
ServerDisconnectedOnlyOnOk ==
    /\ sPc = "disc"
    /\ sLog' = IF sCode = EcOk THEN Append(sLog, Event("disconnected", 0))
                               ELSE sLog
    /\ sPc' = "close"
    /\ UNCHANGED << streamVars, clientVars, callerVars, auxVars, hsReq, sErr,
                    sLen, sBatch, sCode, rdLog, wrLog >>

\* exec.disconnected(peer).await
ServerDisconnected ==
    /\ sPc = "disc"
    /\ sLog' = Append(sLog, Event("disconnected", 0))
    /\ sPc' = "close"
    /\ UNCHANGED << streamVars, clientVars, callerVars, auxVars, hsReq, sErr,
                    sLen, sBatch, sCode, rdLog, wrLog >>

\* Server::close: send.finish(); send.reset(code.into()); drop(recv)
ServerClose ==
    /\ sPc = "close"
    /\ s2c' = Reset(s2c, sCode)
    /\ c2s' = DropRecv(c2s)
    /\ sLog' = Append(sLog, Event("close", sCode))
    /\ sPc' = "closeWait"
    /\ UNCHANGED << connClosed, shortReads, clientVars, callerVars, auxVars,
                    hsReq, sErr, sLen, sBatch, sCode, rdLog, wrLog >>

\* Server::close: drop(send.stopped().await); the task ends and with it the
\* server's last handle of the connection
ServerClosed ==
    /\ sPc = "closeWait"
    /\ Stopped(s2c)
    /\ sPc' = "done"
    /\ connClosed' = TRUE
    /\ UNCHANGED << c2s, s2c, shortReads, clientVars, callerVars, auxVars,
                    hsReq, sErr, sLen, sBatch, sCode, histVars >>

(***************************************************************************)
(* The system                                                              *)
(***************************************************************************)
Next ==
    \/ ClientSendHandshake
    \/ ClientReadHandshakeLen
    \/ ClientReadHandshake
    \/ DriverReset
    \/ DriverRequest
    \/ DriverDrain
    \/ DriverDrained
    \/ DriverReadLen
    \/ DriverRead
    \/ \E i \in Requests : Transactions(i)
    \/ \E i \in Requests : Await(i)
    \/ \E i \in Requests : Cancel(i)
    \/ Shutdown
    \/ ShutdownReturn
    \/ ServerReadHandshakeLen
    \/ ServerReadHandshake
    \/ ServerConnected
    \/ ServerSendHandshake
    \/ ServerReadLen
    \/ ServerRead
    \/ ServerExecute
    \/ ServerWrite
    \/ ServerDisconnected
    \/ ServerClose
    \/ ServerClosed

Spec == Init /\ [][Next]_vars


\* The driver task and the server task are tasks of the runtime: a task that
\* can take a step is eventually polled.  shutdown() is awaited by its caller.
DriverStep ==
    \/ ClientSendHandshake
    \/ ClientReadHandshakeLen
    \/ ClientReadHandshake
    \/ DriverReset
    \/ DriverRequest
    \/ DriverDrain
    \/ DriverDrained
    \/ DriverReadLen
    \/ DriverRead

ServerStep ==
    \/ ServerReadHandshakeLen
    \/ ServerReadHandshake
    \/ ServerConnected
    \/ ServerSendHandshake
    \/ ServerReadLen
    \/ ServerRead
    \/ ServerExecute
    \/ ServerWrite
    \/ ServerDisconnected
    \/ ServerClose
    \/ ServerClosed

FairSpec ==
    /\ Spec
    /\ WF_vars(DriverStep)
    /\ WF_vars(ServerStep)
    /\ WF_vars(ShutdownReturn)

(***************************************************************************)
(* The same system with a caller that may drop the future of               *)
(* connect_insecure while it awaits the handshake response (a timeout or   *)
(* a select around the call): send, recv and the connection are dropped.   *)
(***************************************************************************)
\* connect_insecure is dropped at the await of read_length_prefixed(&mut recv)
ConnectDropped ==
    /\ cPc \in {"hsHdr", "hsBody"}
    /\ cPc' = "dropped"
    /\ c2s' = DropSend(c2s)
    /\ s2c' = DropRecv(s2c)
    /\ connClosed' = TRUE
    /\ UNCHANGED << shortReads, cLen, cur, queue, taskResult, callerVars,
                    serverVars, histVars, auxVars >>

DropNext == Next \/ ConnectDropped

DropSpec == Init /\ [][DropNext]_vars

FairDropSpec ==
    /\ DropSpec
    /\ WF_vars(DriverStep)
    /\ WF_vars(ServerStep)
    /\ WF_vars(ShutdownReturn)

(***************************************************************************)
(* persistent.rs: write_length_prefixed on one side of a stream,           *)
(* read_length_prefixed on the other.  The payloads are the byte strings   *)
(* of 1..MaxPayload bytes over two byte values.                            *)
(***************************************************************************)
RECURSIVE SeqsOver(_, _)
SeqsOver(S, n) ==
    IF n = 0 THEN { << >> }
    ELSE LET shorter == SeqsOver(S, n - 1)
         IN  shorter \cup { Append(q, x) : q \in { r \in shorter : Len(r) = n - 1 },
                                           x \in S }

Payloads == SeqsOver({7, 200}, MaxPayload) \ { << >> }

\* The writer calls write_length_prefixed(payload) and write_chunk; the bytes
\* are on the stream
FrameInit ==
    /\ ConnInit
    /\ TokenIdle
    /\ HandIdle
    /\ DbIdle
    /\ EndIdle
    /\ fPayload \in Payloads
    /\ fWire = Written(NewStream, WriteLengthPrefixed(fPayload))
    /\ fLen = 0
    /\ fOut = [tag |-> "None", bytes |-> << >>, received |-> 0]
    /\ fPc = "len"

\* read_length_prefixed: recv.read_exact(&mut len); u16::from_ne_bytes(len)
FrameReadLen ==
    /\ fPc = "len"
    /\ LET o == ReadExact2(fWire) IN
         /\ o.tag = "Ok"
         /\ fLen' = o.len
         /\ fWire' = [fWire EXCEPT !.data = o.rest]
    /\ fPc' = "body"
    /\ UNCHANGED << exceptFrame, fPayload, fOut >>

\* read_length_prefixed: recv.read_chunk(len, true) and the length test
FrameReadBody ==
    /\ fPc = "body"
    /\ \E o \in ReadChunk(fWire, fLen) :
         LET e == LengthPrefixedError(o, fLen) IN
           /\ fWire' = [fWire EXCEPT !.data = o.rest]
           /\ fOut' = IF e.kind = "None"
                        THEN [tag |-> "Ok", bytes |-> o.bytes,
                              received |-> Len(o.bytes)]
                        ELSE [tag |-> e.kind, bytes |-> << >>,
                              received |-> e.received]
    /\ fPc' = "done"
    /\ UNCHANGED << exceptFrame, fPayload, fLen >>

FrameNext == FrameReadLen \/ FrameReadBody

FrameSpec == FrameInit /\ [][FrameNext]_vars

(***************************************************************************)
(* client/write.rs: impl ToSqlParam for TokenSet, and client/read.rs:      *)
(* deserialize_token_set.  A TokenSet is a BTreeSet of byte strings; a     *)
(* base64 text is the sequence of the alphabet indices of its characters.  *)
(***************************************************************************)
\* const MAX_TOKENS: usize = u8::MAX as usize >> 1
MAX_TOKENS == 127

\* data_encoding::BASE64_NOPAD.encode: character j carries bits 6(j-1) to
\* 6(j-1)+5 of the bytes, the last one filled with zero bits
Base64Encode(b) ==
    LET B(i) == IF i <= Len(b) THEN b[i] ELSE 0
        Char(j) ==
            LET q == 3 * ((j - 1) \div 4)
                r == (j - 1) % 4
            IN  IF r = 0 THEN B(q + 1) \div 4
                ELSE IF r = 1 THEN (B(q + 1) % 4) * 16 + B(q + 2) \div 16
                ELSE IF r = 2 THEN (B(q + 2) % 16) * 4 + B(q + 3) \div 64
                ELSE B(q + 3) % 64
    IN  [j \in 1..((4 * Len(b) + 2) \div 3) |-> Char(j)]

\* data_encoding::BASE64_NOPAD.decode accepts a text: no lone trailing
\* character, no non-zero trailing bits
Base64Valid(t) ==
    /\ Len(t) % 4 # 1
    /\ Len(t) % 4 = 2 => t[Len(t)] % 16 = 0
    /\ Len(t) % 4 = 3 => t[Len(t)] % 4 = 0

\* data_encoding::BASE64_NOPAD.decode of an accepted text
Base64Decode(t) ==
    LET Byte(i) ==
            LET q == 4 * ((i - 1) \div 3)
                r == (i - 1) % 3
            IN  IF r = 0 THEN t[q + 1] * 4 + t[q + 2] \div 16
                ELSE IF r = 1 THEN (t[q + 2] % 16) * 16 + t[q + 3] \div 4
                ELSE (t[q + 3] % 4) * 64 + t[q + 4]
    IN  [i \in 1..((3 * Len(t)) \div 4) |-> Byte(i)]

\* Ord for Vec<u8>: lexicographic, a proper prefix comes first
LexLess(a, b) ==
    \E k \in 0..Len(a) :
       /\ k <= Len(b)
       /\ \A i \in 1..k : a[i] = b[i]
       /\ \/ k = Len(a) /\ k < Len(b)
          \/ k < Len(a) /\ k < Len(b) /\ a[k + 1] < b[k + 1]

\* Iteration over the BTreeSet: the tokens in ascending order
RECURSIVE InOrder(_)
InOrder(S) ==
    IF S = { } THEN << >>
    ELSE LET first == CHOOSE t \in S : \A u \in S \ {t} : LexLess(t, u)
         IN  << first >> \o InOrder(S \ {first})

\* for tok in tokens { if len_prefix { blob.push(tok.len() as u8) }
\*                     blob.extend_from_slice(&tok) }
RECURSIVE TokenBytes(_, _)
TokenBytes(toks, len_prefix) ==
    IF toks = << >> THEN << >>
    ELSE (IF len_prefix THEN << Len(Head(toks)) % 256 >> ELSE << >>)
         \o Head(toks) \o TokenBytes(Tail(toks), len_prefix)

\* impl ToSqlParam for TokenSet: to_sql
TokenSetToSql(S) ==
    IF S = { } THEN [tag |-> "Null", text |-> << >>]
    ELSE LET toks == InOrder(S)
             len == Len(Head(toks))
             same_len == \A t \in S : Len(t) = len
             first == IF Cardinality(S) > 1
                        THEN IF same_len /\ len <= MAX_TOKENS
                               THEN 128 + len
                               ELSE Cardinality(S) % 256
                        ELSE 1
             len_prefix == IF Cardinality(S) > 1 THEN ~same_len ELSE FALSE
         IN  [tag |-> "Text",
              text |-> Base64Encode(<< first >> \o TokenBytes(toks, len_prefix))]

\* for tok in tokens[1..].chunks_exact(len) { ts.insert(tok.to_vec()) }
ChunksExact(b, len) ==
    { SubSeq(b, (k - 1) * len + 1, k * len) : k \in 1..(Len(b) \div len) }

\* Variant of Prefixed: a length beyond the slice takes the bytes that remain
RECURSIVE PrefixedClamped(_, _, _)
PrefixedClamped(toks, n, ts) ==
    IF n = 0 THEN [tag |-> "Ok", set |-> ts]
    ELSE IF Len(toks) = 0 THEN [tag |-> "Panic", set |-> { }]
    ELSE LET len == Min(toks[1], Len(toks) - 1) IN
         PrefixedClamped(Drop(toks, 1 + len), n - 1,
                         ts \cup { SubSeq(toks, 2, 1 + len) })

\* The loop of the length-prefixed form, n tokens to go: indexing toks[0] of
\* an empty slice panics, a length beyond the slice is the eyre::ensure! error
RECURSIVE Prefixed(_, _, _)
Prefixed(toks, n, ts) ==
    IF n = 0 THEN [tag |-> "Ok", set |-> ts]
    ELSE IF Len(toks) = 0 THEN [tag |-> "Panic", set |-> { }]
    ELSE IF toks[1] > Len(toks) - 1 THEN [tag |-> "Err", set |-> { }]
    ELSE Prefixed(Drop(toks, 1 + toks[1]), n - 1,
                  ts \cup { SubSeq(toks, 2, 1 + toks[1]) })

\* deserialize_token_set(s)
DeserializeTokenSet(s) ==
    IF ~Base64Valid(s) THEN [tag |-> "Err", set |-> { }]
    ELSE LET tokens == Base64Decode(s) IN
      IF tokens = << >> THEN [tag |-> "Ok", set |-> { }]
      ELSE IF tokens[1] >= 128
        THEN IF tokens[1] - 128 = 0
               THEN [tag |-> "Panic", set |-> { }]
               ELSE [tag |-> "Ok",
                     set |-> ChunksExact(Tail(tokens), tokens[1] - 128)]
      ELSE IF tokens[1] > 1
        THEN Prefixed(Tail(tokens), tokens[1], { })
      ELSE [tag |-> "Ok", set |-> { Tail(tokens) }]

\* n bytes of value x
Rep(n, x) == [i \in 1..n |-> x]

\* The tokens the sets are made of: the empty token, short ones of one and of
\* two lengths, and pairs sharing a length of 127 and of 128 bytes
TokenPool ==
    { << >>, << 1 >>, << 2 >>, << 1, 2 >>, Rep(127, 1), Rep(127, 2),
      Rep(128, 1), Rep(128, 2) }

TokenSets == { S \in SUBSET TokenPool : Cardinality(S) \in 1..MaxTokens }

TokenInit ==
    /\ ConnInit
    /\ FrameIdle
    /\ HandIdle
    /\ DbIdle
    /\ EndIdle
    /\ tSet \in TokenSets
    /\ tSql = [tag |-> "None", text |-> << >>]
    /\ tOut = [tag |-> "None", set |-> { }]
    /\ tPc = "encode"

\* tokens.to_sql()
TokenEncode ==
    /\ tPc = "encode"
    /\ tSql' = TokenSetToSql(tSet)
    /\ tPc' = "decode"
    /\ UNCHANGED << exceptToken, tSet, tOut >>

\* deserialize_token_set of the text cell
TokenDecode ==
    /\ tPc = "decode"
    /\ tSql.tag = "Text"
    /\ tOut' = DeserializeTokenSet(tSql.text)
    /\ tPc' = "done"
    /\ UNCHANGED << exceptToken, tSet, tSql >>

TokenNext == TokenEncode \/ TokenDecode

TokenSpec == TokenInit /\ [][TokenNext]_vars

(***************************************************************************)
(* client/read.rs: deserialize_token_set given the text of any blob        *)
(***************************************************************************)
\* The blobs: headers 0, 1, the counts 2 and 3, and 0x80 | L for L = 0, 1, 2,
\* followed by bytes that are also token lengths
Blobs == SeqsOver({0, 1, 2, 3, 128, 129, 130}, MaxBlob)

DecodeInit ==
    /\ ConnInit
    /\ FrameIdle
    /\ HandIdle
    /\ DbIdle
    /\ CodeIdle
    /\ eIn = << >>
    /\ eText = << >>
    /\ eOut = [tag |-> "None"]
    /\ ePc = "idle"
    /\ iIn = [kind |-> "none", value |-> << >>]
    /\ iOut = IcaoResult("None", << >>, "", 0, 0, 0)
    /\ iPc = "idle"
    /\ \E blob \in Blobs :
          /\ fnIn = [fn |-> "deserialize_token_set", blob |-> blob]
          /\ tSql = [tag |-> "Text", text |-> Base64Encode(blob)]
    /\ fnOut = [tag |-> "None"]
    /\ fnPc = "idle"
    /\ tSet = { }
    /\ tOut = [tag |-> "None", set |-> { }]
    /\ tPc = "decode"

DecodeNext == TokenDecode

DecodeSpec == DecodeInit /\ [][DecodeNext]_vars

(***************************************************************************)
(* tests/handshake.rs: a V1 handshake written and read back on one host,   *)
(* which is little-endian or big-endian as the build target has it.        *)
(***************************************************************************)
HandPorts == {0, 1, 255, 256, 8998, 65535}

HandIcaos == { << 72, 72, 72, 72 >>, << 65, 90, 65, 90 >> }

HandInit ==
    /\ ConnInit
    /\ FrameIdle
    /\ TokenIdle
    /\ DbIdle
    /\ EndIdle
    /\ hHost \in BOOLEAN
    /\ hIn \in [qcmp_port : HandPorts, icao : HandIcaos, accept : BOOLEAN]
    /\ HandBlank
    /\ hPc = "write"

\* ClientHandshakeRequestV1 { qcmp_port, icao }.write() and
\* ServerHandshakeResponseV1 { accept }.write()
HandWrite ==
    /\ hPc = "write"
    /\ hWire' = [req |-> ClientHandshakeRequestV1WriteOn(hHost, hIn.qcmp_port,
                                                          hIn.icao),
                 res |-> ServerHandshakeResponseV1WriteOn(hHost, hIn.accept)]
    /\ hPc' = "readClient"
    /\ UNCHANGED << exceptHand, hHost, hIn, hOut >>

\* ClientHandshake::read(1, &chs), then client_details()
HandReadClient ==
    /\ hPc = "readClient"
    /\ hOut' = [hOut EXCEPT !.client =
                  ClientHandshakeReadOn(hHost, 1, hWire.req)]
    /\ hPc' = "readServer"
    /\ UNCHANGED << exceptHand, hHost, hIn, hWire >>

\* ServerHandshake::read(1, &shs)
HandReadServer ==
    /\ hPc = "readServer"
    /\ hOut' = [hOut EXCEPT !.server =
                  ServerHandshakeReadOn(hHost, 1, hWire.res)]
    /\ hPc' = "done"
    /\ UNCHANGED << exceptHand, hHost, hIn, hWire >>

HandNext == HandWrite \/ HandReadClient \/ HandReadServer

HandSpec == HandInit /\ [][HandNext]_vars

(***************************************************************************)
(* persistent.rs: ClientHandshake::read and ServerHandshake::read given    *)
(* the buffer a peer sent, whatever it holds.                              *)
(***************************************************************************)
\* The buffers: the magic of the host or another one, version 1, 2 or 256, a
\* payload whose first byte is 0, 1 or 2 with a valid or an invalid ICAO code
\* and a trailing byte, cut at every length up to MaxHandshakeLen
HandshakeBuffers(big) ==
    { Take(h \o v \o p, Min(n, Len(h \o v \o p))) :
        h \in {MagicOn(big), << 1, 2, 3, 4 >>},
        v \in {<< 1, 0 >>, << 2, 0 >>, << 0, 1 >>},
        p \in {<< 0, 35, 72, 72, 72, 72, 9 >>, << 1, 35, 72, 50, 72, 72, 9 >>,
               << 2, 35, 65, 90, 65, 90, 9 >>},
        n \in 0..MaxHandshakeLen }

ReadInit ==
    /\ ConnInit
    /\ FrameIdle
    /\ TokenIdle
    /\ DbIdle
    /\ EndIdle
    /\ hHost \in BOOLEAN
    /\ hIn = [qcmp_port |-> 0, icao |-> << >>, accept |-> FALSE]
    /\ \E b \in HandshakeBuffers(hHost) : hWire = [req |-> b, res |-> b]
    /\ hOut = [client |-> [tag |-> "None"], server |-> [tag |-> "None"]]
    /\ hPc = "readClient"

ReadNext == HandReadClient \/ HandReadServer

ReadSpec == ReadInit /\ [][ReadNext]_vars

(***************************************************************************)
(* client/write.rs and schema.rs: the statements of Server and Datacenter  *)
(* executed on tables servers and dc, each call's statements in one        *)
(* transaction.  A table is the set of its rows; a JSONB object whose      *)
(* values are all {} is the set of its keys; a text is the sequence of its *)
(* characters.                                                             *)
(***************************************************************************)
\* The digits of the decimal and hexadecimal numerals
DigitChars ==
    << "0", "1", "2", "3", "4", "5", "6", "7", "8", "9",
       "a", "b", "c", "d", "e", "f" >>

\* Display of an unsigned integer ({} and {:x}): no sign, no leading zeros
RECURSIVE ToRadix(_, _)
ToRadix(n, radix) ==
    IF n < radix THEN << DigitChars[n + 1] >>
                 ELSE ToRadix(n \div radix, radix) \o << DigitChars[(n % radix) + 1] >>

\* Display of IpAddr.  An Ipv4Addr is its four octets and prints as dotted
\* decimal; an Ipv6Addr is its eight segments and prints an IPv4-mapped
\* address as ::ffff:a.b.c.d, and any other with the first longest run of two
\* or more zero segments as "::" and the segments in lower-case hexadecimal.
IpDisplay(ip) ==
    LET RECURSIVE Join(_, _, _)
        Join(xs, sep, radix) ==
            IF xs = << >> THEN << >>
            ELSE IF Len(xs) = 1 THEN ToRadix(xs[1], radix)
            ELSE ToRadix(xs[1], radix) \o << sep >> \o Join(Tail(xs), sep, radix)
        RunAt(i) == Cardinality({ k \in 0..(8 - i) : \A j \in i..(i + k) : ip[j] = 0 })
        longest == CHOOSE n \in 0..8 :
                      /\ \E i \in 1..8 : RunAt(i) = n
                      /\ \A i \in 1..8 : RunAt(i) <= n
        start == CHOOSE i \in 1..8 :
                    /\ RunAt(i) = longest
                    /\ \A j \in 1..(i - 1) : RunAt(j) < longest
    IN  IF Len(ip) = 4 THEN Join(ip, ".", 10)
        ELSE IF Take(ip, 6) = << 0, 0, 0, 0, 0, 65535 >>
          THEN << ":", ":", "f", "f", "f", "f", ":" >>
               \o Join(<< ip[7] \div 256, ip[7] % 256, ip[8] \div 256, ip[8] % 256 >>,
                       ".", 10)
        ELSE IF longest >= 2
          THEN Join(Take(ip, start - 1), ":", 16) \o << ":", ":" >>
               \o Join(Drop(ip, start - 1 + longest), ":", 16)
        ELSE Join(ip, ":", 16)

\* The IP addresses of the model: four IPv4 addresses, and IPv6 addresses that
\* are unspecified, loopback, with a run of zeros in the middle, with two runs
\* of the same length, IPv4-mapped, without a zero and with a single zero
IpPool ==
    { << 1, 2, 3, 4 >>, << 0, 0, 0, 0 >>, << 127, 0, 0, 1 >>,
      << 255, 255, 255, 255 >>,
      << 0, 0, 0, 0, 0, 0, 0, 0 >>,
      << 0, 0, 0, 0, 0, 0, 0, 1 >>,
      << 8193, 3512, 0, 0, 0, 0, 0, 1 >>,
      << 65152, 0, 0, 1, 0, 0, 43981, 1 >>,
      << 0, 0, 0, 0, 0, 65535, 258, 772 >>,
      << 1, 2, 3, 4, 5, 6, 7, 65535 >>,
      << 1, 0, 3, 4, 5, 6, 7, 8 >> }

\* str::parse::<IpAddr>: on the text Display gives an address, that address;
\* no address for a text that is not the text of an address
IpParse(text) ==
    IF \E ip \in IpPool : IpDisplay(ip) = text
      THEN [tag |-> "Ok", ip |-> CHOOSE ip \in IpPool : IpDisplay(ip) = text]
      ELSE [tag |-> "Err", ip |-> << >>]

\* AddressKind::Name(name) and AddressKind::Ip(ip)
Name(name) == [kind |-> "Name", name |-> name, ip |-> << >>]
Ip(ip) == [kind |-> "Ip", name |-> << >>, ip |-> ip]

\* Endpoint::new(address, port)
Endpoint(address, port) == [address |-> address, port |-> port]

\* The game servers of the database model: two on one IP, one with a hostname
Endpoints ==
    { Endpoint(Ip(<< 1, 2, 3, 4 >>), 1),
      Endpoint(Ip(<< 1, 2, 3, 4 >>), 2),
      Endpoint(Name(<< "h" >>), 1) }

\* The ICAO of the datacenter each peer is in
PeerIcao(p) == IF p = "P" THEN "BOOP" ELSE "VVVV"

\* The token set each peer gives its servers, as the tokens column holds it
PeerTokens(p) == TokenSetToSql(IF p = "P" THEN {<< 1 >>} ELSE {<< 2 >>})

\* The endpoints of the round trip: every address of IpPool and five
\* hostnames, with the ports at which the number of digits changes
EndpointPool ==
    LET names == { << "h" >>, << "a", ".", "b" >>, << "x", "-", "1" >>,
                   << "8", "0" >>, << "1", ".", "2", ".", "3", ".", "4" >> }
        ports == {0, 9, 10, 443, 999, 1000, 10000, 65535}
    IN  { Endpoint(Ip(ip), port) : ip \in IpPool, port \in ports }
        \cup { Endpoint(Name(name), port) : name \in names, port \in ports }

\* fn to_compact_str(ep): "<name>:<port>" or "|<ip>:<port>", as the function
\* from the endpoints of the model to their text
to_compact_str ==
    [ep \in Endpoints \cup EndpointPool |->
        (IF ep.address.kind = "Name" THEN ep.address.name
                                     ELSE << "|" >> \o IpDisplay(ep.address.ip))
        \o << ":" >> \o ToRadix(ep.port, 10)]

ToCompactStr(ep) == to_compact_str[ep]

\* str::parse::<u16>: decimal digits after an optional '+', at most u16::MAX
ParseU16(text) ==
    LET digits == IF text # << >> /\ text[1] = "+" THEN Tail(text) ELSE text
        value[i \in 0..Len(digits)] ==
            IF i = 0 THEN 0
            ELSE value[i - 1] * 10
                   + (CHOOSE d \in 0..9 : DigitChars[d + 1] = digits[i])
    IN  IF digits = << >> THEN [tag |-> "Err", value |-> 0]
        ELSE IF \E i \in 1..Len(digits) :
                    \A d \in 0..9 : DigitChars[d + 1] # digits[i]
          THEN [tag |-> "Err", value |-> 0]
        ELSE IF value[Len(digits)] > 65535 THEN [tag |-> "Err", value |-> 0]
        ELSE [tag |-> "Ok", value |-> value[Len(digits)]]

\* parse_endpoint after the split at colon number at of the text
ParseEndpointAt(addr, at) ==
    LET host == Take(addr, at - 1)
        port == ParseU16(Drop(addr, at))
        ip == IpParse(Tail(host))
    IN  IF port.tag = "Err" THEN [tag |-> "Err"]
        ELSE IF host # << >> /\ host[1] = "|"
          THEN IF ip.tag = "Err"
                 THEN [tag |-> "Err"]
                 ELSE [tag |-> "Ok", endpoint |-> Endpoint(Ip(ip.ip), port.value)]
        ELSE [tag |-> "Ok", endpoint |-> Endpoint(Name(host), port.value)]

\* The positions of the colons of a text
Colons(addr) == { i \in 1..Len(addr) : addr[i] = ":" }

\* Variant of ParseEndpoint: split_once(':'), at the first colon
ParseEndpointSplitOnce(addr) ==
    IF Colons(addr) = { } THEN [tag |-> "Err"]
    ELSE ParseEndpointAt(addr, CHOOSE i \in Colons(addr) :
                                   \A j \in Colons(addr) : i <= j)

\* fn parse_endpoint(addr): rsplit_once(':'), at the last colon
ParseEndpoint(addr) ==
    IF Colons(addr) = { } THEN [tag |-> "Err"]
    ELSE ParseEndpointAt(addr, CHOOSE i \in Colons(addr) :
                                   \A j \in Colons(addr) : j <= i)

\* endpoint.address.to_string(): the Display of AddressKind, the name or the IP
AddressToString(address) ==
    IF address.kind = "Name" THEN address.name ELSE IpDisplay(address.ip)

\* jsonb_patch(obj, '{"<key>":{}}')
JsonbPatchSet(obj, key) == obj \cup {key}

\* jsonb_patch(obj, '{"<key>":null}')
JsonbPatchNull(obj, key) == obj \ {key}

\* length(obj) of a JSONB blob: the one-byte header of the object, and per key
\* at least its header, one character and the one-byte {}
JsonbLength(obj) == 1 + 3 * Cardinality(obj)

\* Variant of UpsertServers: ON CONFLICT(endpoint) DO NOTHING
UpsertServersDoNothing(tbl, peer_ip, endpoint, icao, tokens) ==
    IF \E r \in tbl : r.endpoint = endpoint
      THEN tbl
      ELSE tbl \cup { [endpoint |-> endpoint, icao |-> icao, tokens |-> tokens,
                       contributors |-> {peer_ip}, cont_update |-> now] }

\* Variant of UpsertServers: DO UPDATE without the WHERE clause
UpsertServersNoGuard(tbl, peer_ip, endpoint, icao, tokens) ==
    IF \E r \in tbl : r.endpoint = endpoint
      THEN { IF r.endpoint = endpoint
               THEN [r EXCEPT !.contributors = JsonbPatchSet(@, peer_ip),
                              !.cont_update = now]
               ELSE r : r \in tbl }
      ELSE tbl \cup { [endpoint |-> endpoint, icao |-> icao, tokens |-> tokens,
                       contributors |-> {peer_ip}, cont_update |-> now] }

\* INSERT INTO servers (...) VALUES (?,?,?,jsonb('{"<peer_ip>":{}}'),
\* unixepoch('now')) ON CONFLICT(endpoint) DO UPDATE SET contributors =
\* jsonb_patch(..), cont_update = unixepoch('now')
\* WHERE excluded.icao = servers.icao
UpsertServers(tbl, peer_ip, endpoint, icao, tokens) ==
    IF \E r \in tbl : r.endpoint = endpoint
      THEN { IF r.endpoint = endpoint /\ icao = r.icao
               THEN [r EXCEPT !.contributors = JsonbPatchSet(@, peer_ip),
                              !.cont_update = now]
               ELSE r : r \in tbl }
      ELSE tbl \cup { [endpoint |-> endpoint, icao |-> icao, tokens |-> tokens,
                       contributors |-> {peer_ip}, cont_update |-> now] }

\* INSERT INTO dc (ip,port,icao,servers) VALUES (?,?,?,jsonb('{"<server>":{}}'))
\* ON CONFLICT(ip) DO UPDATE SET servers = jsonb_patch(..)
\* WHERE excluded.icao = dc.icao
UpsertDc(tbl, peer_ip, server, icao) ==
    IF \E r \in tbl : r.ip = peer_ip
      THEN { IF r.ip = peer_ip /\ icao = r.icao
               THEN [r EXCEPT !.servers = JsonbPatchSet(@, server)]
               ELSE r : r \in tbl }
      ELSE tbl \cup { [ip |-> peer_ip, icao |-> icao, servers |-> {server}] }

\* UPDATE dc SET servers = jsonb_patch(servers, '{"<server>":null}')
\* WHERE rowid = (SELECT MIN(rowid) FROM dc WHERE ip = ?)
NullDcServer(tbl, peer_ip, server) ==
    { IF r.ip = peer_ip THEN [r EXCEPT !.servers = JsonbPatchNull(@, server)]
                        ELSE r : r \in tbl }

\* Server::upsert(endpoint, icao, tokens) of the peer
Upsert(p, ep) ==
    /\ servers' = UpsertServers(servers, p, ToCompactStr(ep), PeerIcao(p),
                                PeerTokens(p))
    /\ dc' = UpsertDc(dc, p, AddressToString(ep.address), PeerIcao(p))
    /\ last' = IF p = "P"
                 THEN Op("upsert", p, ToCompactStr(ep), 0,
                         IF last.op = "upsert" /\ last.ep = ToCompactStr(ep)
                           THEN 1 ELSE 0)
                 ELSE Op("other", "", "", 0, 0)
    /\ mine' = IF p = "P" THEN mine \cup {ep} ELSE mine
    /\ UNCHANGED << exceptDb, now, sessions >>

\* Server::remove_immediate(endpoint) of the peer
RemoveImmediate(p, ep) ==
    /\ servers' = { r \in servers : r.endpoint # ToCompactStr(ep) }
    /\ dc' = NullDcServer(dc, p, AddressToString(ep.address))
    /\ last' = Op("remove_immediate", p, ToCompactStr(ep), 0,
                  Cardinality(UNION { r.contributors : r \in
                      { x \in servers : x.endpoint = ToCompactStr(ep) } }))
    /\ mine' = IF p = "P" THEN mine \ {ep} ELSE mine
    /\ UNCHANGED << exceptDb, now, sessions >>

\* Variant of RemoveDeferred: the row is deleted once it has no contributor
RemoveDeferredDeleting(p, ep) ==
    /\ servers' = { r \in { IF x.endpoint = ToCompactStr(ep)
                               THEN [x EXCEPT !.contributors = JsonbPatchNull(@, p),
                                              !.cont_update = now]
                               ELSE x : x \in servers } :
                      r.endpoint = ToCompactStr(ep) => r.contributors # { } }
    /\ dc' = NullDcServer(dc, p, ToCompactStr(ep))
    /\ last' = Op("remove_deferred", p, ToCompactStr(ep), 0,
                  Cardinality({ r \in servers : /\ r.endpoint = ToCompactStr(ep)
                                                /\ p \in r.contributors }))
    /\ mine' = IF p = "P" THEN mine \ {ep} ELSE mine
    /\ UNCHANGED << exceptDb, now, sessions >>

\* Server::remove_deferred(endpoint) of the peer
RemoveDeferred(p, ep) ==
    /\ servers' = { IF r.endpoint = ToCompactStr(ep)
                      THEN [r EXCEPT !.contributors = JsonbPatchNull(@, p),
                                     !.cont_update = now]
                      ELSE r : r \in servers }
    /\ dc' = NullDcServer(dc, p, ToCompactStr(ep))
    /\ last' = Op("remove_deferred", p, ToCompactStr(ep), 0,
                  Cardinality({ r \in servers : /\ r.endpoint = ToCompactStr(ep)
                                                /\ p \in r.contributors }))
    /\ mine' = IF p = "P" THEN mine \ {ep} ELSE mine
    /\ UNCHANGED << exceptDb, now, sessions >>

\* Variant of Reaped: the age test alone
ReapedAnyContributors(max_age) ==
    { r \in servers : now - r.cont_update > max_age }

\* The rows "DELETE FROM servers WHERE length(contributors) <= 1 AND
\* unixepoch('now') - cont_update > max_age" deletes
Reaped(max_age) ==
    { r \in servers : /\ JsonbLength(r.contributors) <= 1
                      /\ now - r.cont_update > max_age }

\* The max_age.as_secs() given to reap_old
ReapAges == 0..(MaxTime - 1)

\* Server::reap_old(max_age)
ReapOld(max_age) ==
    /\ servers' = servers \ Reaped(max_age)
    /\ last' = Op("reap_old", "", "", max_age, Cardinality(Reaped(max_age)))
    /\ UNCHANGED << exceptDb, dc, now, mine, sessions >>

\* update_time: Option<UtcDateTime>
UpdateTimes == { [some |-> FALSE, t |-> 0], [some |-> TRUE, t |-> 0] }

\* Datacenter::remove(peer, update_time).  The first statement is
\*   UPDATE servers SET contributors = jsonb_patch(s.contributors, ..null),
\*     cont_update = <time> FROM servers s LEFT JOIN sj ON s.endpoint = sj.key
\* with no WHERE clause: every row of servers is joined with every row s (the
\* LEFT JOIN drops none of them), and SQLite updates a row that has several
\* join rows from one of them, which one being unspecified.
\* The second statement is DELETE FROM dc WHERE rowid = (SELECT MIN(rowid)
\* FROM dc WHERE ip = ?), ip being the primary key of dc.
DatacenterRemoveStatements(p, time) ==
    LET patched == { JsonbPatchNull(s.contributors, p) : s \in servers }
    IN
    /\ \E from \in [servers -> patched] :
          servers' = { [r EXCEPT !.contributors = from[r],
                                 !.cont_update = time] : r \in servers }
    /\ dc' = { r \in dc : r.ip # p }

DatacenterRemove(p, update_time) ==
    /\ DatacenterRemoveStatements(p, IF update_time.some THEN update_time.t
                                                          ELSE now)
    /\ last' = Op("other", "", "", 0, 0)
    /\ mine' = IF p = "P" THEN { } ELSE mine
    /\ UNCHANGED << exceptDb, now, sessions >>

\* A second passes
Tick ==
    /\ now < MaxTime
    /\ now' = now + 1
    /\ UNCHANGED << exceptDb, servers, dc, last, mine, sessions >>

DbInit == ConnInit /\ FrameIdle /\ TokenIdle /\ HandIdle /\ DbIdle /\ EndIdle

\* The endpoints a peer contributes: P all of them, Q the hostname
EndpointsOf(p) ==
    IF p = "P" THEN Endpoints
               ELSE { ep \in Endpoints : ep.address.kind = "Name" }

\* Peer P issues every operation; peer Q only contributes servers.
DbNext ==
    \/ \E p \in Peers : \E ep \in EndpointsOf(p) : Upsert(p, ep)
    \/ \E ep \in Endpoints : RemoveImmediate("P", ep)
    \/ \E ep \in Endpoints : RemoveDeferred("P", ep)
    \/ \E max_age \in ReapAges : ReapOld(max_age)
    \/ \E update_time \in UpdateTimes : DatacenterRemove("P", update_time)
    \/ Tick

DbSpec == DbInit /\ [][DbNext]_vars

(***************************************************************************)
(* tests/quic.rs: the executor of the relay, called by the server task of  *)
(* each session with the session's Peer (persistent/server.rs 147-152).    *)
(***************************************************************************)
\* impl ToSqlParam for Peer: the text of self.ip(), without the port
PeerToSql(peer) == peer.ip

\* The endpoints a session upserts
EndpointsOfSession(s) == { ep \in Endpoints : (ep.address.kind = "Ip") = (s.ip = "P") }

\* connected: Datacenter::insert(peer, qcmp_port, icao), a plain INSERT INTO
\* dc.  ip is the primary key of dc: with a row of that ip in the table the
\* statement fails and changes nothing.  What follows the error is the
\* executor's: the one of tests/quic.rs unwraps it and the session's task
\* panics, one that reports it goes on and the session is served.
SessionConnected(s) ==
    /\ sessions[s].state = "none"
    /\ IF \E d \in dc : d.ip = PeerToSql(s)
         THEN /\ dc' = dc
              /\ \E state \in {"failed", "connected"} :
                    sessions' = [sessions EXCEPT ![s] = Session(state, { })]
         ELSE /\ dc' = dc \cup { [ip |-> PeerToSql(s), icao |-> PeerIcao(s.ip),
                                   servers |-> { }] }
              /\ sessions' = [sessions EXCEPT ![s] = Session("connected", { })]
    /\ UNCHANGED << exceptDb, servers, now, last, mine >>

\* execute, ServerChange::Insert: Server::for_peer(peer, ..).upsert(..)
SessionUpsert(s, ep) ==
    /\ sessions[s].state = "connected"
    /\ servers' = UpsertServers(servers, PeerToSql(s), ToCompactStr(ep),
                                PeerIcao(s.ip), PeerTokens(s.ip))
    /\ dc' = UpsertDc(dc, PeerToSql(s), AddressToString(ep.address),
                      PeerIcao(s.ip))
    /\ sessions' = [sessions EXCEPT ![s].eps = @ \cup {ep}]
    /\ UNCHANGED << exceptDb, now, last, mine >>

\* disconnected: Datacenter::remove(peer, None)
SessionDisconnected(s) ==
    /\ sessions[s].state = "connected"
    /\ DatacenterRemoveStatements(PeerToSql(s), now)
    /\ sessions' = [sessions EXCEPT ![s].state = "gone"]
    /\ UNCHANGED << exceptDb, now, last, mine >>

SessionNext ==
    \/ \E s \in Sessions : SessionConnected(s)
    \/ \E s \in Sessions : \E ep \in EndpointsOfSession(s) : SessionUpsert(s, ep)
    \/ \E s \in Sessions : SessionDisconnected(s)

SessionSpec == DbInit /\ [][SessionNext]_vars

(***************************************************************************)
(* client/write.rs, client/read.rs: an endpoint to its text and back       *)
(***************************************************************************)
EndInit ==
    /\ ConnInit
    /\ FrameIdle
    /\ TokenIdle
    /\ HandIdle
    /\ DbIdle
    /\ CodeIdle
    /\ FnIdle
    /\ eIn \in EndpointPool
    /\ eText = << >>
    /\ eOut = [tag |-> "None"]
    /\ ePc = "text"
    /\ iIn = [kind |-> "none", value |-> << >>]
    /\ iOut = IcaoResult("None", << >>, "", 0, 0, 0)
    /\ iPc = "idle"

\* impl ToSqlParam for Endpoint: SqliteParam::Text(to_compact_str(self))
EndToSql ==
    /\ ePc = "text"
    /\ eText' = ToCompactStr(eIn)
    /\ ePc' = "parse"
    /\ UNCHANGED << exceptEnd, eIn, eOut >>

\* ServerRow::from_sql: parse_endpoint(column 'endpoint')
EndParse ==
    /\ ePc = "parse"
    /\ eOut' = ParseEndpoint(eText)
    /\ ePc' = "done"
    /\ UNCHANGED << exceptEnd, eIn, eText >>

EndNext == EndToSql \/ EndParse

EndSpec == EndInit /\ [][EndNext]_vars

(***************************************************************************)
(* icao.rs: parsing an IcaoCode from bytes and from a str                  *)
(***************************************************************************)
\* The inputs: bytes A, Z, the bytes next to them and 255; chars A, Z, the
\* chars next to them and U+00E9, which has two bytes
IcaoInputs ==
    { [kind |-> "bytes", value |-> v] :
        v \in SeqsOver({65, 90, 64, 91, 255}, MaxIcaoLen) }
    \cup { [kind |-> "str", value |-> v] :
             v \in SeqsOver({65, 90, 64, 91, 233}, MaxIcaoLen) }

IcaoInit ==
    /\ ConnInit
    /\ FrameIdle
    /\ TokenIdle
    /\ HandIdle
    /\ DbIdle
    /\ CodeIdle
    /\ FnIdle
    /\ eIn = << >>
    /\ eText = << >>
    /\ eOut = [tag |-> "None"]
    /\ ePc = "idle"
    /\ iIn \in IcaoInputs
    /\ iOut = IcaoResult("None", << >>, "", 0, 0, 0)
    /\ iPc = "parse"

\* IcaoCode::try_from(bytes)
IcaoParseBytes ==
    /\ iPc = "parse"
    /\ iIn.kind = "bytes"
    /\ iOut' = IcaoTryFrom(iIn.value)
    /\ iPc' = "done"
    /\ UNCHANGED << exceptIcao, iIn >>

\* str.parse::<IcaoCode>()
IcaoParseStr ==
    /\ iPc = "parse"
    /\ iIn.kind = "str"
    /\ iOut' = IcaoFromStr(iIn.value)
    /\ iPc' = "done"
    /\ UNCHANGED << exceptIcao, iIn >>

IcaoNext == IcaoParseBytes \/ IcaoParseStr

IcaoSpec == IcaoInit /\ [][IcaoNext]_vars

(***************************************************************************)
(* persistent/server.rs: the close code made of the error that ended       *)
(* io_loop                                                                 *)
(***************************************************************************)
\* The errors io_loop can return.  A LengthMismatch is built only of two
\* different lengths; read_chunk's own bound on the chunk is quinn's, so
\* both orders are inputs of the conversion.
IoLoopErrors ==
    { IoLoopError("Read", Lre(k, 0, 0)) :
        k \in {"Read", "FinishedEarly", "StreamEnded", "Json"} }
    \cup { IoLoopError("Read", Lre("LengthMismatch", m[1], m[2])) :
             m \in { n \in (0..MaxChunk) \X (0..MaxChunk) : n[1] # n[2] } }
    \cup { IoLoopError(k, Lre("None", 0, 0)) : k \in {"Jsonb", "Write"} }

CodeInit ==
    /\ ConnInit
    /\ FrameIdle
    /\ TokenIdle
    /\ HandIdle
    /\ DbIdle
    /\ eIn = << >>
    /\ eText = << >>
    /\ eOut = [tag |-> "None"]
    /\ ePc = "idle"
    /\ iIn = [kind |-> "none", value |-> << >>]
    /\ iOut = IcaoResult("None", << >>, "", 0, 0, 0)
    /\ iPc = "idle"
    /\ FnIdle
    /\ ioErr \in IoLoopErrors
    /\ ioCode = 0
    /\ ioPc = "failed"

\* read_length_prefixed_jsonb(&mut recv).await? failed; code = error.into()
CodeOfRead ==
    /\ ioPc = "failed"
    /\ ioErr.kind = "Read"
    /\ ioCode' = EcOfIoLoopError(ioErr)
    /\ ioPc' = "close"
    /\ UNCHANGED << exceptCode, ioErr >>

\* write_length_prefixed_jsonb(&response)? failed; code = error.into()
CodeOfJsonb ==
    /\ ioPc = "failed"
    /\ ioErr.kind = "Jsonb"
    /\ ioCode' = EcOfIoLoopError(ioErr)
    /\ ioPc' = "close"
    /\ UNCHANGED << exceptCode, ioErr >>

\* send.write_chunk(response.freeze()).await? failed; code = error.into()
CodeOfWrite ==
    /\ ioPc = "failed"
    /\ ioErr.kind = "Write"
    /\ ioCode' = EcOfIoLoopError(ioErr)
    /\ ioPc' = "close"
    /\ UNCHANGED << exceptCode, ioErr >>

CodeNext == CodeOfRead \/ CodeOfJsonb \/ CodeOfWrite

CodeSpec == CodeInit /\ [][CodeNext]_vars

(***************************************************************************)
(* client/write.rs: Server::update, called as the executor of              *)
(* tests/quic.rs calls it for a ServerUpdate read from the wire.  A query  *)
(* is the sequence of the pieces pushed to it.                             *)
(***************************************************************************)
None == [some |-> FALSE]

Some(v) == [some |-> TRUE, v |-> v]

\* The token sets of the updates
UpdateTokenSets ==
    { { }, { << 1 >> }, { << 1 >>, << 2 >> }, { << 1 >>, << 1, 2 >> },
      { << >>, << 1 >>, << 2 >> } }

\* struct ServerUpdate { endpoint, icao: Option<IcaoCode>,
\* tokens: Option<TokenSet> }
ServerUpdates ==
    { [endpoint |-> ep, icao |-> i, tokens |-> t] :
        ep \in Endpoints,
        i \in {None, Some("BOOP"), Some("VVVV")},
        t \in {None} \cup { Some(S) : S \in UpdateTokenSets } }

\* UpdateBuilder::new(&u.endpoint), then update_icao and update_tokens for
\* the fields that are Some
UpdateBuilderOf(u) == [ep |-> u.endpoint, icao |-> u.icao, tokens |-> u.tokens]

\* Server::update(update): the statement pushed to self.statements
ServerUpdateStatement(update) ==
    LET set_icao == IF update.icao.some THEN << "icao = ?" >> ELSE << >>
        icao_param == IF update.icao.some
                        THEN << [tag |-> "Text", text |-> update.icao.v] >>
                        ELSE << >>
        set_tokens == IF update.tokens.some
                        THEN (IF icao_param # << >> THEN << ", " >> ELSE << >>)
                                \o << "tokens = ?" >>
                        ELSE << >>
        tokens_param == IF update.tokens.some
                          THEN << TokenSetToSql(update.tokens.v) >>
                          ELSE << >>
    IN  [tag |-> "Pushed",
         query |-> << "UPDATE servers SET " >> \o set_icao \o set_tokens
           \o << " WHERE rowid = (SELECT MIN(rowid) FROM servers WHERE endpoint = ?)" >>,
         params |-> icao_param \o tokens_param
           \o << [tag |-> "Text", text |-> ToCompactStr(update.ep)] >>]

UpdateInit ==
    /\ ConnInit
    /\ FrameIdle
    /\ TokenIdle
    /\ HandIdle
    /\ DbIdle
    /\ eIn = << >>
    /\ eText = << >>
    /\ eOut = [tag |-> "None"]
    /\ ePc = "idle"
    /\ iIn = [kind |-> "none", value |-> << >>]
    /\ iOut = IcaoResult("None", << >>, "", 0, 0, 0)
    /\ iPc = "idle"
    /\ CodeIdle
    /\ \E u \in ServerUpdates : fnIn = [fn |-> "update", u |-> u]
    /\ fnOut = [tag |-> "None"]
    /\ fnPc = "build"

\* execute, ServerChange::Update: the UpdateBuilder of one ServerUpdate
UpdateBuild ==
    /\ fnPc = "build"
    /\ fnOut' = [tag |-> "Builder", ub |-> UpdateBuilderOf(fnIn.u)]
    /\ fnPc' = "update"
    /\ UNCHANGED << exceptFn, fnIn >>

\* srv.update(ub)
UpdatePush ==
    /\ fnPc = "update"
    /\ fnOut' = ServerUpdateStatement(fnOut.ub)
    /\ fnPc' = "done"
    /\ UNCHANGED << exceptFn, fnIn >>

UpdateNext == UpdateBuild \/ UpdatePush

UpdateSpec == UpdateInit /\ [][UpdateNext]_vars

(***************************************************************************)
(* persistent/error.rs: ErrorCode to the stream reset code and back        *)
(***************************************************************************)
ErrorCodes ==
    { "Unknown", "Ok", "BadRequest", "BadHandshake", "LengthRequired",
      "PayloadTooLarge", "PayloadInsufficient", "ClientClosed",
      "InternalServerError", "VersionNotSupported" }

\* impl From<ErrorCode> for quinn::VarInt: the discriminant, value as u32
VarIntOfErrorCode(value) ==
    CASE value = "Unknown" -> EcUnknown
      [] value = "Ok" -> EcOk
      [] value = "BadRequest" -> EcBadRequest
      [] value = "BadHandshake" -> EcBadHandshake
      [] value = "LengthRequired" -> EcLengthRequired
      [] value = "PayloadTooLarge" -> EcPayloadTooLarge
      [] value = "PayloadInsufficient" -> EcPayloadInsufficient
      [] value = "ClientClosed" -> EcClientClosed
      [] value = "InternalServerError" -> EcInternalServerError
      [] value = "VersionNotSupported" -> EcVersionNotSupported

\* impl From<quinn::VarInt> for ErrorCode: the arms of the match, in order
ErrorCodeOfVarInt(value) ==
    CASE value = 200 -> "Ok"
      [] value = 402 -> "BadHandshake"
      [] value = 411 -> "LengthRequired"
      [] value = 413 -> "PayloadTooLarge"
      [] value = 414 -> "PayloadInsufficient"
      [] value = 499 -> "ClientClosed"
      [] value = 500 -> "InternalServerError"
      [] value = 505 -> "VersionNotSupported"
      [] OTHER -> "Unknown"

\* The input is an ErrorCode, to be sent as a reset code and read back, or a
\* reset code as a peer may send it
RoundInit ==
    /\ ConnInit
    /\ FrameIdle
    /\ TokenIdle
    /\ HandIdle
    /\ DbIdle
    /\ eIn = << >>
    /\ eText = << >>
    /\ eOut = [tag |-> "None"]
    /\ ePc = "idle"
    /\ iIn = [kind |-> "none", value |-> << >>]
    /\ iOut = IcaoResult("None", << >>, "", 0, 0, 0)
    /\ iPc = "idle"
    /\ CodeIdle
    /\ \/ \E c \in ErrorCodes :
             /\ fnIn = [fn |-> "ErrorCode", code |-> c]
             /\ fnPc = "into"
       \/ \E v \in 0 .. MaxVarInt :
             /\ fnIn = [fn |-> "VarInt", value |-> v]
             /\ fnPc = "from"
    /\ fnOut = [tag |-> "None"]

\* VarInt::from(c)
RoundInto ==
    /\ fnPc = "into"
    /\ fnOut' = [tag |-> "VarInt", value |-> VarIntOfErrorCode(fnIn.code)]
    /\ fnPc' = "from"
    /\ UNCHANGED << exceptFn, fnIn >>

\* ErrorCode::from(v)
RoundFrom ==
    /\ fnPc = "from"
    /\ fnOut' = [tag |-> "ErrorCode",
                 code |-> ErrorCodeOfVarInt(IF fnIn.fn = "VarInt"
                                            THEN fnIn.value ELSE fnOut.value)]
    /\ fnPc' = "done"
    /\ UNCHANGED << exceptFn, fnIn >>

RoundNext == RoundInto \/ RoundFrom

RoundSpec == RoundInit /\ [][RoundNext]_vars

(***************************************************************************)
(* client.rs: connect_insecure against a server that is not server.rs      *)
(***************************************************************************)
\* The handshake responses a server at the address may send: the two V1
\* responses, V1 with other accept bytes, with a byte after the accept byte,
\* without the accept byte, version 2, another magic, the magic alone
PeerResponses ==
    { ServerHandshakeResponseV1Write(TRUE),
      ServerHandshakeResponseV1Write(FALSE),
      Take(ServerHandshakeResponseV1Write(FALSE), 6) \o << 2 >>,
      Take(ServerHandshakeResponseV1Write(FALSE), 6) \o << 255 >>,
      ServerHandshakeResponseV1Write(FALSE) \o << 1 >>,
      Take(ServerHandshakeResponseV1Write(FALSE), 6),
      MAGIC \o U16Bytes(2) \o << 1 >>,
      << 0, 0, 0, 0 >> \o U16Bytes(1) \o << 1 >>,
      MAGIC }

\* The server writes its handshake response, length prefixed, and leaves the
\* stream open
PeerServerRespond ==
    /\ sPc = "hsHdr"
    /\ CanWrite(s2c)
    /\ \E r \in PeerResponses : s2c' = Written(s2c, WriteLengthPrefixed(r))
    /\ sPc' = "done"
    /\ UNCHANGED << c2s, connClosed, shortReads, clientVars, callerVars, sLen,
                    sBatch, sCode, hsReq, sErr, histVars, auxVars >>

PeerNext ==
    \/ ClientSendHandshake
    \/ ClientReadHandshakeLen
    \/ ClientReadHandshake
    \/ PeerServerRespond
    \/ \E i \in Requests : Transactions(i)
    \/ DriverRequest

PeerSpec == Init /\ [][PeerNext]_vars

(***************************************************************************)
(* Properties                                                              *)
(***************************************************************************)
Logged(ev) == { k \in 1..Len(sLog) : sLog[k].ev = ev }

ReadOf(i) == { k \in 1..Len(rdLog) : rdLog[k].req = i }

\* connect_insecure has returned Ok(Client)
ConnectReturnedOk == cPc \in {"select", "rdHdr", "rdBody", "drainWait", "done"}

\* C1: the driver writes a request only when every request written before has
\* had its response read (or its read failed): the requests written are the
\* responses read plus the one being read.
C1_Serialized ==
    Len(wrLog) = Len(rdLog) + (IF cPc \in {"rdHdr", "rdBody"} THEN 1 ELSE 0)

C1_Witness == Len(wrLog) = 3 /\ Len(rdLog) = 2 /\ cPc = "rdBody"

\* C2: every call of transactions() that returns Ok returns the ExecResult of
\* its own batch.
C2_OwnResult ==
    \A i \in Requests : res[i].kind = "Ok" => res[i].batch = i


\* C3: on a connection whose handshake completed, disconnected is invoked at
\* most once, only after the I/O loop has ended, after every execute and
\* before close(); once close() has been entered it has been invoked.
HandshakeCompleted ==
    /\ Logged("connected") # { }
    /\ sPc # "hsWrite"
    /\ ~(sPc = "done" /\ Logged("close") = { })

C3_DisconnectedOnce ==
    /\ Cardinality(Logged("disconnected")) <= 1
    /\ \A k \in Logged("disconnected") :
          /\ sPc \notin {"rdHdr", "rdBody", "exec", "write", "disc"}
          /\ \A j \in Logged("execute") : j < k
          /\ \A j \in Logged("close") : k < j
    /\ HandshakeCompleted /\ sPc \in {"close", "closeWait", "done"}
          => Cardinality(Logged("disconnected")) = 1

C3_Witness ==
    /\ sPc = "done"
    /\ Logged("execute") # { }
    /\ Logged("disconnected") # { }

\* C4: when connect_insecure has returned Ok, connected has been run.
C4_ConnectedBeforeOk == ConnectReturnedOk => Logged("connected") # { }

C4_Witness == cPc = "select" /\ sPc = "rdHdr" /\ Logged("connected") # { }

\* C5: when shutdown() has returned, disconnected has been run; and a
\* shutdown() that was called returns.
C5_Shutdown ==
    /\ [](shPc = "returned" => Logged("disconnected") # { })
    /\ (shPc = "awaitTask" ~> shPc = "returned")

C5_Witness ==
    /\ shPc = "returned"
    /\ taskResult = "OkNone"
    /\ c2s.rst = 1
    /\ Logged("execute") # { }
    /\ Logged("disconnected") # { }

\* The part of dropped-receiver handling that does not depend on framing: the
\* end of a response read leads back to the select, whether or not the reply
\* could be delivered, and every request taken from the queue has had a
\* response read for it by the time the driver is back at the select.
ReadLeadsToSelect ==
    cPc \in {"rdHdr", "rdBody"} => cPc' \in {"rdHdr", "rdBody", "select"}

DropKeepsLoop ==
    /\ [][ReadLeadsToSelect]_vars
    /\ [](cPc \in {"select", "drainWait"} =>
            \A i \in Requests :
               chan[i].kind # "None" /\ i \notin Range(queue) => ReadOf(i) # { })

\* The reply of request i could not be delivered: its receiver was dropped
\* before the response read for it ended
DroppedBeforeReply(i) ==
    call[i] = "dropped" /\ chan[i].kind = "Open" /\ ReadOf(i) # { }

\* C6: after a request whose reply receiver was dropped has been written and
\* its response read, the following requests stay aligned: every later
\* response that is read successfully is that of the request just written.
C6_AlignedAfterDrop ==
    \A k \in 1..Len(rdLog) :
       (\E j \in 1..(k - 1) : DroppedBeforeReply(rdLog[j].req))
          => rdLog[k].got \in {0, rdLog[k].req}

\* C7: once the driver task has ended no caller is left waiting on an open
\* reply channel, and a call whose request was not enqueued or whose reply
\* sender was dropped returns TaskShutdown.
C7_TaskShutdown ==
    /\ cPc = "done" =>
          \A i \in Requests : call[i] = "waiting" => chan[i].kind # "Open"
    /\ \A i \in Requests :
          call[i] = "returned" /\ chan[i].kind \in {"None", "Closed"}
             => res[i].kind = "TaskShutdown"

C7_Witness ==
    /\ cPc = "done"
    /\ \E i \in Requests : chan[i].kind = "Closed" /\ res[i].kind = "TaskShutdown"
    /\ \E i \in Requests : chan[i].kind = "None" /\ res[i].kind = "TaskShutdown"

\* C8: draining resets the outbound stream with code 1, drops the receive
\* stream, awaits stopped and ends the task with Ok(None); nothing is written
\* once draining has begun.
C8_Drain ==
    /\ cPc = "drainWait" => c2s.rst = 1
    /\ c2s.rst = 1 =>
          /\ cPc \in {"drainWait", "done"}
          /\ queue = << >> /\ ~txAlive
          /\ c2s.data = << >> /\ ~c2s.fin
          /\ s2c.stop \/ s2c.rst >= 0 \/ s2c.fin
          /\ cPc = "done" => taskResult = "OkNone" /\ Stopped(c2s)

C8_Witness == cPc = "done" /\ c2s.rst = 1 /\ Len(wrLog) >= 1 /\ s2c.stop

\* C9: when the driver starts draining, every request that was enqueued has
\* been written and has had its response read.
C9_QueuedNotDiscarded ==
    cPc = "drainWait" \/ c2s.rst = 1 =>
       \A i \in Requests : chan[i].kind # "None" => ReadOf(i) # { }

C9_Witness ==
    /\ c2s.rst = 1
    /\ \E k \in 1..Len(wrLog) : wrLog[k].closed /\ ReadOf(wrLog[k].req) # { }

\* C10: whatever handshake frame the peer sends, the server's connection task
\* never panics: a malformed frame ends in a Result or a termination code.
C10_NoPanic == sPc # "panicked"

\* The magic of a handshake payload is malformed: ClientHandshake::read's
\* test buf.len() < 4 || &buf[..4] != &MAGIC
MalformedMagic(buf) == Len(buf) < 4 \/ Take(buf, 4) # MAGIC

\* C11: when the handshake payload the server obtained has a malformed magic,
\* the server goes to close() with BadHandshake (402), closes with that code
\* and makes no AgentExecutor call for the connection.
C11_BadMagic ==
    hsReq # << >> /\ MalformedMagic(hsReq) =>
       /\ sCode = EcBadHandshake
       /\ sPc \in {"close", "closeWait", "done"}
       /\ sPc \in {"closeWait", "done"}
             => sLog = << Event("close", EcBadHandshake) >>
       /\ sPc = "close" => sLog = << >>

C11_Witness ==
    /\ MalformedMagic(hsReq)
    /\ Len(hsReq) = 12
    /\ sPc = "done"
    /\ sLog = << Event("close", EcBadHandshake) >>
    /\ s2c.rst = EcBadHandshake

\* The version field of a handshake payload that holds one: buf[4] | buf[5] << 8
VersionOf(buf) == U16Of(buf[5], buf[6])

\* C12: when the handshake payload the server obtained has the correct magic
\* and a version the server does not know, the server closes with
\* VersionNotSupported (505).
C12_UnknownVersion ==
    /\ hsReq # << >>
    /\ ~MalformedMagic(hsReq)
    /\ Len(hsReq) >= 6
    /\ VersionOf(hsReq) # 1
    => sCode = EcVersionNotSupported

\* C13: when the stream ends after a complete length prefix and before any
\* byte of the announced payload (read_chunk finds the stream finished:
\* LengthReadError::StreamEnded), the server closes with LengthRequired (411).
C13_EndAfterPrefix == sErr = "StreamEnded" => sCode = EcLengthRequired

\* C14: read_length_prefixed returns the payload that was given to
\* write_length_prefixed, however the transport segments the stream.
C14_RoundTrip ==
    fPc = "done" =>
       fOut = [tag |-> "Ok", bytes |-> fPayload, received |-> Len(fPayload)]

\* C15: deserialize_token_set(to_sql(S)) is S for every non-empty token set.
C15_RoundTrip == tPc = "done" => tOut = [tag |-> "Ok", set |-> tSet]

\* C16: a V1 handshake read back gives version 1, the qcmp_port and the ICAO
\* that were written, and the response read back gives the accept written.
C16_HandshakeRoundTrip ==
    hPc = "done" =>
       /\ hOut.client.tag = "Ok"
       /\ hOut.client.version = 1
       /\ hOut.client.qcmp_port = hIn.qcmp_port
       /\ hOut.client.icao = hIn.icao
       /\ hOut.server.tag = "Ok"
       /\ hOut.server.accept = hIn.accept

\* The rows the claim says reap_old(d) deletes: empty contributors and
\* cont_update older than now - d
C17_Old(d) == { r \in servers : r.contributors = { } /\ r.cont_update < now - d }

C17_Step == \A d \in ReapAges : ReapOld(d) => servers' = servers \ C17_Old(d)

\* C17: reap_old(d) deletes exactly the servers rows whose contributors are
\* empty and whose cont_update is older than now - d; every other row is kept.
C17_ReapExact == [][C17_Step]_vars

\* reap_old(d) has deleted a row and kept a row older than now - d with a
\* contributor and a row without contributors that is not older than now - d
C17_Witness ==
    /\ last.op = "reap_old" /\ last.n >= 1
    /\ \E r \in servers : r.contributors # { } /\ r.cont_update < now - last.t
    /\ \E r \in servers : r.contributors = { } /\ r.cont_update >= now - last.t

\* What a second upsert(ep, icao, tokens) of peer P, applied after the same
\* upsert, leaves: one row for ep with P among its contributors, cont_update
\* not decreased, and nothing else changed in servers or dc
C18_Twice(ep) ==
    LET was == { r \in servers : r.endpoint = ToCompactStr(ep) }
        is == { r \in servers' : r.endpoint = ToCompactStr(ep) }
    IN  /\ Cardinality(is) = 1
        /\ \A r \in is : "P" \in r.contributors
        /\ \A r \in is, w \in was : w.cont_update <= r.cont_update
        /\ { [r EXCEPT !.cont_update = 0] : r \in servers' }
             = { [r EXCEPT !.cont_update = 0] : r \in servers }
        /\ dc' = dc

\* The second of two identical upserts of peer P
C18_Second(ep) ==
    /\ last.op = "upsert" /\ last.peer = "P" /\ last.ep = ToCompactStr(ep)
    /\ Upsert("P", ep)

\* servers holds no row for ep under an ICAO other than P's
C18_SameIcao(ep) ==
    \A r \in servers : r.endpoint = ToCompactStr(ep) => r.icao = PeerIcao("P")

C18_Step ==
    \A ep \in Endpoints : C18_Second(ep) /\ C18_SameIcao(ep) => C18_Twice(ep)

C18_OriginalStep == \A ep \in Endpoints : C18_Second(ep) => C18_Twice(ep)

C19_Keys == UNION { r.servers : r \in { d \in dc : d.ip = "P" } }

\* C19: the keys of P's dc.servers correspond one to one to the endpoints P
\* upserted and has not removed since: the key each upsert inserted is there,
\* and there are as many keys as endpoints.
C19_DcMirrors ==
    /\ \A ep \in mine : AddressToString(ep.address) \in C19_Keys
    /\ Cardinality(C19_Keys) = Cardinality(mine)

\* What Datacenter::remove(P, t) is to leave: every row of servers still there,
\* P taken out of the contributors of the rows it contributed and their
\* cont_update set to the time, and no dc row of P
C20_Removed(time) ==
    /\ { r.endpoint : r \in servers' } = { r.endpoint : r \in servers }
    /\ \A r \in servers : "P" \in r.contributors =>
          \E u \in servers' : /\ u.endpoint = r.endpoint
                              /\ u.contributors = r.contributors \ {"P"}
                              /\ u.cont_update = time
    /\ \A d \in dc' : d.ip # "P"

C20_Step ==
    \A update_time \in UpdateTimes :
       DatacenterRemove("P", update_time) =>
          C20_Removed(IF update_time.some THEN update_time.t ELSE now)

\* C20: Datacenter::remove(P, t) removes P from the contributors of every
\* servers row P contributed and sets its cont_update to t (now when absent),
\* deletes no servers row, and deletes P's dc row; a row whose sole contributor
\* was P is left with empty contributors.
C20_DatacenterRemove == [][C20_Step]_vars


\* upsert(ep, icao, tokens) of peer p finds a servers row for ep under another
\* ICAO, and the row is in servers afterwards as it was
C21_Step ==
    \A p \in Peers : \A ep \in EndpointsOf(p) :
        \/ \A r \in servers :
              r.endpoint = ToCompactStr(ep) /\ r.icao # PeerIcao(p)
                  => r \in servers'
        \/ ~Upsert(p, ep)

\* C21: an upsert of an endpoint whose servers row has another ICAO leaves the
\* row untouched: icao, tokens, contributors and cont_update are unchanged.
C21_Untouched == [][C21_Step]_vars

\* P upserted an endpoint, at least a second after its row was written, and
\* the row is under Q's ICAO with Q's tokens and Q as the only contributor
C21_Witness ==
    /\ last.op = "upsert" /\ last.peer = "P"
    /\ \E r \in servers : /\ r.endpoint = last.ep
                          /\ r.icao = PeerIcao("Q")
                          /\ r.tokens = PeerTokens("Q")
                          /\ r.contributors = {"Q"}
                          /\ r.cont_update < now

\* What remove_deferred(ep) of peer P leaves: every row still there, the row
\* of ep without P's key and updated now, its icao, tokens and other keys and
\* every other row as they were
C22_Deferred(ep) ==
    /\ { r.endpoint : r \in servers' } = { r.endpoint : r \in servers }
    /\ \A r \in servers :
          IF r.endpoint = ToCompactStr(ep)
            THEN \E x \in servers' :
                    /\ x.endpoint = r.endpoint
                    /\ x.icao = r.icao
                    /\ x.tokens = r.tokens
                    /\ x.contributors = r.contributors \ {"P"}
                    /\ x.cont_update = now
            ELSE r \in servers'

\* What remove_immediate(ep) leaves: no row for ep, every other row as it was
C22_Immediate(ep) ==
    servers' = { r \in servers : r.endpoint # ToCompactStr(ep) }

C22_Step ==
    \A ep \in Endpoints :
        /\ last'.op = "remove_deferred" /\ RemoveDeferred("P", ep)
              => C22_Deferred(ep)
        /\ last'.op = "remove_immediate" /\ RemoveImmediate("P", ep)
              => C22_Immediate(ep)

\* C22: remove_deferred(ep) by P never deletes the servers row: it removes
\* only P's key from contributors and updates cont_update, leaving the other
\* contributors' keys, icao and tokens unchanged; remove_immediate(ep) deletes
\* the row regardless of contributors.
C22_Remove == [][C22_Step]_vars

\* P removed itself, deferred, from an endpoint it alone contributed, and the
\* row is still there, updated now, under P's ICAO and without contributors,
\* next to a row Q contributes
C22_Witness ==
    /\ last.op = "remove_deferred" /\ last.peer = "P" /\ last.n = 1
    /\ now >= 1
    /\ \E r \in servers : /\ r.endpoint = last.ep
                          /\ r.icao = PeerIcao("P")
                          /\ r.tokens = PeerTokens("P")
                          /\ r.contributors = { }
                          /\ r.cont_update = now
    /\ \E r \in servers : r.contributors = {"Q"}

\* connect_insecure returned Err(err) and there is no running client: no
\* driver task, no Client to queue a transaction, no request written
C23_Failed(err, ours, theirs) ==
    /\ connectResult = ConnectResult("Err", err, ours, theirs)
    /\ cPc = "connectFailed"
    /\ ~txAlive
    /\ queue = << >>
    /\ wrLog = << >>

\* A V1 response: the magic, version 1 and an accept byte
C23_V1(r) == Len(r) >= 7 /\ Take(r, 6) = MAGIC \o U16Bytes(1)

\* C23: a response with accept = 0 makes connect_insecure fail with
\* UnsupportedVersion { ours: VERSION, theirs: 1 }, one with an accept byte
\* other than 0 and 1 with InvalidResponse, and in both cases the client
\* never runs: no driver task is spawned and no request is written.
C23_Rejected ==
    C23_V1(hsRes) =>
        /\ hsRes[7] = 0 => C23_Failed("UnsupportedVersion", ClientVERSION, 1)
        /\ hsRes[7] \notin {0, 1} => C23_Failed("InvalidResponse", 0, 0)

\* connect_insecure read a V1 response with accept = 0 sent to it in one
\* piece, after sending a valid request, and failed
C23_Witness ==
    /\ hsRes = ServerHandshakeResponseV1Write(FALSE)
    /\ connectResult.tag = "Err"
    /\ shortReads = 0
    /\ c2s.data = WriteLengthPrefixed(ValidHandshake)

\* C24: for every endpoint E with an IPv4, IPv6 or hostname address and any
\* 16-bit port, parse_endpoint(to_compact_str(E)) is E, the text being
\* "|<ip>:<port>" for an IP and "<name>:<port>" for a hostname.
C24_RoundTrip ==
    ePc = "done" =>
        /\ eOut = [tag |-> "Ok", endpoint |-> eIn]
        /\ eText = IF eIn.address.kind = "Ip"
                     THEN << "|" >> \o IpDisplay(eIn.address.ip) \o << ":" >>
                            \o ToRadix(eIn.port, 10)
                     ELSE eIn.address.name \o << ":" >> \o ToRadix(eIn.port, 10)

\* The IPv6 endpoint [2001:db8::1]:65535 went through its text |2001:db8::1:65535
C24_Witness ==
    /\ ePc = "done"
    /\ eIn = Endpoint(Ip(<< 8193, 3512, 0, 0, 0, 0, 0, 1 >>), 65535)
    /\ eText = << "|", "2", "0", "0", "1", ":", "d", "b", "8", ":", ":", "1",
                  ":", "6", "5", "5", "3", "5" >>
    /\ eOut.tag = "Ok"

\* The length of a parser's input: the number of bytes, of a str as of a slice
C25_Len == IF iIn.kind = "str" THEN StrLen(iIn.value) ELSE Len(iIn.value)

\* The positions, from 0, of the input's characters outside A..Z
C25_Bad == { i \in 0..(Len(iIn.value) - 1) : iIn.value[i + 1] \notin 65..90 }

\* C25: parsing an ICAO code, from bytes and from a string, succeeds exactly
\* when the input is four characters all in A..Z; an input of length 4 with a
\* character outside A..Z fails with InvalidCharacter whose index is the
\* first violating position, and an input of another length fails with
\* InvalidLength { len }.
C25_Parse ==
    iPc = "done" =>
        /\ iOut.tag = "Ok" <=> Len(iIn.value) = 4 /\ C25_Bad = { }
        /\ iOut.tag = "Ok" => iOut.code = iIn.value
        /\ C25_Len = 4 /\ C25_Bad # { } =>
              /\ iOut.tag = "Err" /\ iOut.err = "InvalidCharacter"
              /\ iOut.index \in C25_Bad
              /\ \A i \in C25_Bad : iOut.index <= i
              /\ iOut.character = iIn.value[iOut.index + 1]
        /\ C25_Len # 4 =>
              /\ iOut.tag = "Err" /\ iOut.err = "InvalidLength"
              /\ iOut.len = C25_Len

\* The str "A", U+00E9, "[" of four bytes, with two chars outside A..Z, was
\* parsed: InvalidCharacter at index 1
C25_Witness ==
    /\ iPc = "done"
    /\ iIn = [kind |-> "str", value |-> << 65, 233, 91 >>]
    /\ iOut = IcaoResult("Err", << >>, "InvalidCharacter", 0, 233, 1)

\* C26: in the server's handshake sequence the V1 accept response is
\* frame-sent to the client before AgentExecutor::connected is notified:
\* while complete_handshake has not written the response, connected has not
\* been called.
C26_ResponseBeforeConnected ==
    sPc \in {"hsHdr", "hsBody", "connected", "hsWrite"}
        => Logged("connected") = { }

\* The driver wrote no request after a read of a response that failed
C27_ClientTerminal ==
    \A k \in 1..Len(rdLog) : rdLog[k].got = 0 => Len(wrLog) <= k

\* The server is out of its I/O loop once a read of a request failed
C27_ServerTerminal ==
    sErr \in {"Read", "FinishedEarly", "StreamEnded", "LengthMismatch", "Json"}
        => sPc \notin {"rdHdr", "rdBody", "exec", "write"}

\* C27: a framing or JSON error is terminal on both sides: the client's
\* driver writes no further request after failing to read or decode a
\* response, and the server executes and answers no further request after
\* failing to read or decode one.
C27_Terminal == C27_ClientTerminal /\ C27_ServerTerminal

\* The events of io_loop in sLog, in order: requests read, execute calls and
\* responses written
C28_Loop == SelectSeq(sLog, LAMBDA e : e.ev \in {"read", "execute", "write"})

\* C28: for each request frame successfully read, execute is invoked exactly
\* once and exactly one response frame is written before the next request
\* frame is read; execute is never invoked before connected has completed.
C28_OneExecuteOneResponse ==
    /\ \A k \in 1..Len(C28_Loop) :
          /\ C28_Loop[k].ev = (CASE k % 3 = 1 -> "read"
                                 [] k % 3 = 2 -> "execute"
                                 [] OTHER -> "write")
          /\ k % 3 # 1 => C28_Loop[k].arg = C28_Loop[k - 1].arg
    /\ \A e \in Logged("execute") : \E c \in Logged("connected") : c < e

\* The server has read three requests, executed each once and answered each
C28_Witness ==
    /\ Len(C28_Loop) = 9
    /\ Cardinality(Logged("execute")) = 3
    /\ sPc = "rdHdr"

\* The server sends the ExecResult::Error of a batch as a frame of its JSON
\* and is back at the read of the next request
C29_Sent ==
    sPc = "write" /\ sBatch \in FailingBatches /\ CanWrite(s2c) /\ ServerWrite
        => /\ s2c'.data = s2c.data \o WriteLengthPrefixed(JsonResult(sBatch))
           /\ sPc' = "rdHdr"
           /\ sErr' = "" /\ sCode' = 0

\* The driver hands a decoded ExecResult::Error to the caller as Ok and is
\* back at its select
C29_Received ==
    Len(rdLog') > Len(rdLog) /\ rdLog'[Len(rdLog')].error
        => /\ cPc' = "select"
           /\ taskResult' = "none"
           /\ rdLog'[Len(rdLog')].got # 0
           /\ call[cur] = "waiting"
                 => chan'[cur] = Value("Ok", rdLog'[Len(rdLog')].got)

C29_Step == C29_Sent /\ C29_Received

\* C29: an ExecResult that embeds a failure is framed and sent like a
\* success: the server loop keeps running, the client driver keeps running,
\* and the next request on the same session is executed and answered.
C29_FailureIsAnswer == [][C29_Step]_vars

\* Batch 2 failed in the executor; its ExecResult::Error reached the client,
\* and batch 3 was then written, executed, answered and read on the same stream
C29_Witness ==
    /\ Len(rdLog) = 3
    /\ rdLog[2] = [req |-> 2, got |-> 2, error |-> TRUE]
    /\ rdLog[3] = [req |-> 3, got |-> 3, error |-> FALSE]
    /\ sLog[Len(sLog)] = Event("write", 3)
    /\ taskResult = "none"

\* The close code the claim states for an IoLoopError, written from the
\* wording of the claim; 0 where it states none
C30_Stated(e) ==
    IF e.kind = "Write" THEN EcClientClosed
    ELSE IF e.kind = "Jsonb" THEN EcInternalServerError
    ELSE IF e.read.kind \in {"Read", "StreamEnded"} THEN EcClientClosed
    ELSE IF e.read.kind = "LengthMismatch" /\ e.read.received > e.read.expected
      THEN EcPayloadTooLarge
    ELSE IF e.read.kind = "LengthMismatch" /\ e.read.received < e.read.expected
      THEN EcPayloadInsufficient
    ELSE IF e.read.kind = "Json" THEN EcBadRequest
    ELSE 0

C31_Stated(r, buf, ours, N, bad, valid) ==
    LET v == U16Of(buf[5], buf[6]) IN
    IF Len(buf) < 4 \/ Take(buf, 4) # MagicOn(hHost)
      THEN r.tag = "Err" /\ r.err = "InvalidMagic"
    ELSE IF Len(buf) < 6
      THEN r.tag \in {"Ok", "Err"}
    ELSE IF v # 1
      THEN /\ r.tag = "Err" /\ r.err = "UnsupportedVersion"
           /\ r.ours = ours /\ r.theirs = v
    ELSE IF Len(buf) - 6 < N
      THEN /\ r.tag = "Err" /\ r.err = "InsufficientLength"
           /\ r.length = Len(buf) - 6 /\ r.expected = N
    ELSE IF ~valid
      THEN r.tag = "Err" /\ r.err = bad
    ELSE r.tag = "Ok"

\* C31: for every byte buffer, ClientHandshake::read and
\* ServerHandshake::read return a value or a HandshakeError decided in this
\* order: InvalidMagic, else UnsupportedVersion { ours, theirs }, else
\* InsufficientLength { length, expected } (6 payload bytes for the request,
\* 1 for the response), else InvalidIcao / InvalidResponse, else success,
\* ignoring trailing bytes.
C31_ReadOrder ==
    hPc = "done" =>
       /\ C31_Stated(hOut.client, hWire.req, 1, 6, "InvalidIcao",
                      \A i \in 9..12 : ValidIcaoByte(hWire.req[i]))
       /\ C31_Stated(hOut.server, hWire.res, 1, 1, "InvalidResponse",
                      hWire.res[7] \in {0, 1})

\* The same order for the buffers that hold the magic and at least the two
\* bytes of the version, or no magic
C31_ReadOrderFromSix ==
    (Len(hWire.req) \in {4, 5} /\ Take(hWire.req, 4) = MagicOn(hHost))
       \/ C31_ReadOrder

\* The SET list of an UPDATE servers statement: the pieces between the head
\* and the WHERE clause
C32_SetList(query) == SubSeq(query, 2, Len(query) - 1)

\* C32: Server::update requires at least one of icao / tokens to be set: a
\* call with neither set (including one built from a wire ServerUpdate whose
\* icao and tokens are both null) trips the assertion, and every UPDATE
\* servers statement the builder emits has a non-empty SET list, with icao
\* before tokens and the endpoint parameter last.
C32_Update ==
    fnPc = "done" /\ fnIn.fn = "update" =>
       IF ~fnIn.u.icao.some /\ ~fnIn.u.tokens.some
         THEN fnOut.tag = "Panic"
         ELSE /\ fnOut.tag = "Pushed"
              /\ C32_SetList(fnOut.query)
                   \in { << "icao = ?" >>, << "tokens = ?" >>,
                         << "icao = ?", ", ", "tokens = ?" >> }
              /\ fnOut.params[Len(fnOut.params)]
                   = [tag |-> "Text", text |-> ToCompactStr(fnIn.u.endpoint)]
              /\ Len(fnOut.params)
                   = 1 + Len(SelectSeq(C32_SetList(fnOut.query),
                                       LAMBDA x : x # ", "))

\* The statements of the updates that set a column are as stated
C32_UpdateOfSome ==
    (~fnIn.u.icao.some /\ ~fnIn.u.tokens.some) \/ C32_Update

\* C33: deserialize_token_set rejects as invalid every non-empty blob whose
\* first byte is 0; first byte 1 decodes to the single token formed by the
\* rest of the blob, and an empty blob decodes to the empty set.
C33_FirstByte ==
    tPc = "done" /\ fnIn.fn = "deserialize_token_set" =>
       LET blob == fnIn.blob IN
       /\ blob = << >> => tOut = [tag |-> "Ok", set |-> { }]
       /\ blob # << >> /\ blob[1] = 0 => tOut.tag = "Err"
       /\ blob # << >> /\ blob[1] = 1 =>
             tOut = [tag |-> "Ok", set |-> { Tail(blob) }]

\* The parts of C33 about the empty blob and about first byte 1
C33_FirstByteOne ==
    (fnIn.fn = "deserialize_token_set" /\ fnIn.blob # << >> /\ fnIn.blob[1] = 0)
       \/ C33_FirstByte

\* The position of the length byte of the k-th token of the length-prefixed
\* form in toks, were every token before it whole
RECURSIVE C34_LenAt(_, _)
C34_LenAt(toks, k) ==
    IF k = 1 THEN 1
    ELSE LET at == C34_LenAt(toks, k - 1) IN
         IF at > Len(toks) THEN at ELSE at + 1 + toks[at]

\* Among the n declared tokens there is one whose length byte is present
\* and exceeds the bytes remaining after it
C34_Exceeds(toks, n) ==
    \E k \in 1..n :
       LET at == C34_LenAt(toks, k) IN
       at <= Len(toks) /\ toks[at] > Len(toks) - at

\* C34: in the length-prefixed token form, deserialize_token_set fails with
\* an error whenever a declared token length exceeds the bytes remaining
\* after the length byte, and inserts no token past that point.
C34_LengthExceeds ==
    tPc = "done" /\ fnIn.fn = "deserialize_token_set" =>
       LET blob == fnIn.blob IN
       blob # << >> /\ blob[1] > 1 /\ blob[1] < 128
          /\ C34_Exceeds(Tail(blob), blob[1])
          => tOut = [tag |-> "Err", set |-> { }]

\* Two tokens declared, the first with length 3 and only 2 bytes after its
\* length byte: the decoding failed
C34_Witness ==
    /\ tPc = "done"
    /\ fnIn.fn = "deserialize_token_set"
    /\ fnIn.blob = << 2, 3, 1, 1 >>
    /\ tOut.tag = "Err"

\* C40: deserialize_token_set is total: for every base64-decodable blob it
\* returns either a token set or an error and never panics, including a
\* uniform-length header with L = 0 (byte 0x80) and a length-prefixed header
\* whose declared token count exceeds the tokens actually present.
C40_Total ==
    tPc = "done" /\ fnIn.fn = "deserialize_token_set" => tOut.tag \in {"Ok", "Err"}

\* A blob whose header is 0x80, or whose header is a count of which the
\* blob ends before the last length byte
C40_NamedCase(blob) ==
    /\ blob # << >>
    /\ \/ blob[1] = 128
       \/ /\ blob[1] > 1 /\ blob[1] < 128
          /\ ~C34_Exceeds(Tail(blob), blob[1])
          /\ C34_LenAt(Tail(blob), blob[1]) > Len(blob) - 1

\* Every blob outside the two named cases is decoded to a set or an error
C40_TotalElsewhere ==
    (fnIn.fn = "deserialize_token_set" /\ C40_NamedCase(fnIn.blob)) \/ C40_Total

\* C35: every AgentExecutor::connected invocation is eventually followed by
\* a disconnected invocation for the same connection once that connection
\* ends, including when writing the handshake response fails after connected
\* has been called.
C35_ConnectedThenDisconnected ==
    (Logged("connected") # { } /\ connClosed) ~> (Logged("disconnected") # { })

\* The same for the connections whose handshake response was written
C35_AfterResponse ==
    (HandshakeCompleted /\ connClosed) ~> (Logged("disconnected") # { })

\* The servers rows P did not contribute: P is not among the contributors
\* and the endpoint is none of those P upserted and has not removed since
C37_NotOfP == { r \in servers : /\ "P" \notin r.contributors
                                 /\ \A ep \in mine : r.endpoint # ToCompactStr(ep) }

C37_Step ==
    \A update_time \in UpdateTimes :
       DatacenterRemove("P", update_time) =>
          \A r \in C37_NotOfP :
             \E u \in servers' : /\ u.endpoint = r.endpoint
                                 /\ u.contributors = r.contributors
                                 /\ u.cont_update = r.cont_update

\* C37: Datacenter::remove(P, t) leaves unchanged the contributors and
\* cont_update of every servers row that P did not contribute (rows not
\* listed in P's dc.servers).
C37_OtherRowsUnchanged == [][C37_Step]_vars

\* What session b has in the database stays when session a is disconnected:
\* the dc row of its peer, and its peer among the contributors of the
\* servers rows it upserted
C36_InPlace(b) ==
    /\ \A d \in dc : d.ip = PeerToSql(b) => d \in dc'
    /\ \A ep \in sessions[b].eps : \A r \in servers :
          r.endpoint = ToCompactStr(ep) /\ PeerToSql(b) \in r.contributors
             => \E u \in servers' : /\ u.endpoint = r.endpoint
                                    /\ PeerToSql(b) \in u.contributors

C36_Step ==
    \A a \in Sessions :
       sessions[a].state = "connected" /\ sessions'[a].state = "gone" =>
          \A b \in Sessions \ {a} :
             b.ip = a.ip /\ sessions[b].state = "connected" => C36_InPlace(b)

C36_OtherIpStep ==
    \A a \in Sessions :
       sessions[a].state = "connected" /\ sessions'[a].state = "gone" =>
          \A b \in Sessions :
             b.ip # a.ip /\ sessions[b].state = "connected" =>
                \A d \in dc : d.ip = PeerToSql(b) => d \in dc'

C36_OtherIp == [][C36_OtherIpStep]_vars

\* The discriminants of the ten codes
C39_Discriminants == { 0, 200, 400, 402, 411, 413, 414, 499, 500, 505 }

C39_Holds(codes) ==
    fnPc = "done" =>
       /\ fnIn.fn = "ErrorCode" /\ fnIn.code \in codes => fnOut.code = fnIn.code
       /\ fnIn.fn = "VarInt" /\ fnIn.value \notin C39_Discriminants
             => fnOut.code = "Unknown"

\* C39: ErrorCode round-trips through the stream reset code: for every
\* ErrorCode c (Unknown, Ok, BadRequest, BadHandshake, LengthRequired,
\* PayloadTooLarge, PayloadInsufficient, ClientClosed, InternalServerError,
\* VersionNotSupported), ErrorCode::from(VarInt::from(c)) == c, and every
\* integer outside the set maps to Unknown.
C39_RoundTrip == C39_Holds(ErrorCodes)

\* The same for every code but BadRequest
C39_RoundTripButBadRequest == C39_Holds(ErrorCodes \ {"BadRequest"})

\* The close code of a connection whose handshake completed is not Ok
C38_NeverOk ==
    HandshakeCompleted => \A k \in Logged("close") : sLog[k].arg # EcOk

\* The I/O loop that ends on the stream the client reset with code 1 ends
\* with ClientClosed
C38_Step ==
    sPc \in {"rdHdr", "rdBody", "exec", "write"} /\ sPc' = "disc" /\ c2s.rst = 1
       => sCode' = EcClientClosed

\* The stream the client reset with code 1 is closed with ClientClosed, the
\* loop not having ended before on a frame delivered in pieces
C38_Graceful ==
    HandshakeCompleted /\ c2s.rst = 1 /\ shortReads = 0
       => \A k \in Logged("close") : sLog[k].arg = EcClientClosed

\* C38: the server's post-handshake I/O loop terminates only through an
\* error, so the close code of a connection that completed its handshake is
\* never Ok (200); a graceful client shutdown (stream reset with code 1) is
\* closed by the server with ClientClosed (499).
C38_CloseCode == [](C38_NeverOk /\ C38_Graceful) /\ [][C38_Step]_vars

C38_Witness ==
    /\ HandshakeCompleted
    /\ shPc = "returned"
    /\ c2s.rst = 1
    /\ shortReads = 0
    /\ Logged("execute") # { }
    /\ \E k \in Logged("close") : sLog[k].arg = EcClientClosed


=============================================================================
